---- MODULE Spec2Model ----
(***************************************************************************)
(* A model of the tigma canvas editor (src/index.ts, class CanvasApp):     *)
(* the document (text boxes, rectangles, lines, id and z counters), the    *)
(* selection, the pointer/key state machine, the undo/redo history and     *)
(* the file codec.  The CanvasApp instance is the record `app`; every      *)
(* method is an operator from an app record to the app record it leaves.   *)
(***************************************************************************)
EXTENDS Integers, Sequences, FiniteSets, TLC

VARIABLES
  app,            \* the CanvasApp instance: its private fields
  button,         \* the terminal's mouse button: TRUE between down and up
  loadFileResult, \* the loadFile calls: how many, the last one's file and what it returned
  steps,          \* events delivered so far (bounds the exploration)
  gpre,           \* history variable: the documents before the mutating gestures
  gpend,          \* history variable: the entry on top of gpre is of a gesture that has not mutated yet
  gundo,          \* history variable: undo calls in a row that restored an entry of gpre
  mem             \* the document as objects with identity: arrays, entity records,
                  \* character arrays and character records at addresses, the live
                  \* references and the snapshots of both stacks as references

vars == <<app, button, loadFileResult, steps, gpre, gpend, gundo, mem>>

----------------------------------------------------------------------------
(* Bounds of the model                                                      *)

\* columns 0..MaxX are where the pointer goes (besides the palette cells)
MaxX == 2
\* events delivered after the initial state
MaxSteps == 3
\* events delivered after the initial state when loadFile may be called too
MaxLoadSteps == 2
\* events delivered after an initial state whose undo stack is nearly full
MaxDeepSteps == 4

----------------------------------------------------------------------------
(* Program constants                                                        *)

MAX_HISTORY == 100
\* the terminal: 24 columns, 3 canvas rows above the toolbar row
GridWidth == 24
GridHeight == 3
\* `null` of a number-or-null field (ids are positive)
nullId == -1
pickerWidth == 32

\* `null` of an object-or-null field
null == [null |-> TRUE]

Min(a, b) == IF a < b THEN a ELSE b
Max(a, b) == IF a > b THEN a ELSE b

----------------------------------------------------------------------------
(* Colors.  An RGBA object holds four channels; fromInts(r,g,b,a) keeps    *)
(* n/255 in each, modelled by the numerator n.                              *)

RGBA_fromInts(r, g, b, a) == [buffer |-> <<r, g, b, a>>]
RGBA_fromValues(r, g, b, a) == [buffer |-> <<r, g, b, a>>]

STROKE_PALETTE ==
  << null,
     RGBA_fromInts(0, 0, 0, 255),
     RGBA_fromInts(255, 255, 255, 255),
     RGBA_fromInts(255, 100, 100, 255),
     RGBA_fromInts(100, 255, 100, 255),
     RGBA_fromInts(100, 100, 255, 255),
     RGBA_fromInts(255, 255, 100, 255) >>

FILL_PALETTE ==
  << null,
     RGBA_fromInts(0, 0, 0, 255),
     RGBA_fromInts(60, 60, 60, 255),
     RGBA_fromInts(80, 30, 30, 255),
     RGBA_fromInts(30, 80, 30, 255),
     RGBA_fromInts(30, 30, 80, 255),
     RGBA_fromInts(80, 80, 30, 255) >>

----------------------------------------------------------------------------
(* Arrays and Sets of the source                                            *)

\* Array.prototype.filter
FilterSeq(seq, Keep(_)) == SelectSeq(seq, Keep)

\* Array.prototype.find by id: the index of the first element with that id, 0 if none
FindIndex(seq, id) ==
  IF \E i \in 1..Len(seq) : seq[i].id = id
  THEN CHOOSE i \in 1..Len(seq) :
         seq[i].id = id /\ \A j \in 1..(i - 1) : seq[j].id # id
  ELSE 0

\* Array.prototype.indexOf on an array of numbers, 1-based, 0 if absent
IndexOf(seq, v) ==
  IF \E i \in 1..Len(seq) : seq[i] = v
  THEN CHOOSE i \in 1..Len(seq) : seq[i] = v /\ \A j \in 1..(i - 1) : seq[j] # v
  ELSE 0

\* A Set<number> keeps insertion order: a sequence without repetition
SetHas(set, id) == \E i \in 1..Len(set) : set[i] = id
SetAdd(set, id) == IF SetHas(set, id) THEN set ELSE Append(set, id)
SetDelete(set, id) == FilterSeq(set, LAMBDA e : e # id)
SetSize(set) == Len(set)
\* set.values().next().value, nullId for undefined
SetFirst(set) == IF set = <<>> THEN nullId ELSE set[1]
SetElems(set) == {set[i] : i \in 1..Len(set)}

\* numbers.sort((a, b) => a - b)
RECURSIVE SortAsc(_)
SortAsc(seq) ==
  IF seq = <<>> THEN <<>>
  ELSE LET m == CHOOSE i \in 1..Len(seq) : \A j \in 1..Len(seq) : seq[i] <= seq[j]
       IN <<seq[m]>> \o SortAsc([k \in 1..(Len(seq) - 1) |->
                                   IF k < m THEN seq[k] ELSE seq[k + 1]])

----------------------------------------------------------------------------
(* History (undo/redo)                                                      *)

cloneTextBoxes(boxes) ==
  [i \in 1..Len(boxes) |->
     [boxes[i] EXCEPT !.chars = [k \in 1..Len(boxes[i].chars) |-> boxes[i].chars[k]]]]
cloneRectangles(rects) == [i \in 1..Len(rects) |-> rects[i]]
cloneLines(lines) == [i \in 1..Len(lines) |-> lines[i]]

\* the HistorySnapshot of the current document
currentSnapshot(s) ==
  [ textBoxes     |-> cloneTextBoxes(s.textBoxes),
    rectangles    |-> cloneRectangles(s.rectangles),
    lines         |-> cloneLines(s.lines),
    nextTextBoxId |-> s.nextTextBoxId,
    nextRectId    |-> s.nextRectId,
    nextLineId    |-> s.nextLineId,
    nextZIndex    |-> s.nextZIndex ]

\* after the push: `if (length > MAX_HISTORY) shift()`
CapHistory(stack) == IF Len(stack) > MAX_HISTORY THEN Tail(stack) ELSE stack

saveSnapshot_NoCap(s) ==
  [s EXCEPT !.historyStack = Append(@, currentSnapshot(s)),
            !.redoStack = <<>>]

saveSnapshot_KeepRedo(s) ==
  [s EXCEPT !.historyStack = CapHistory(Append(@, currentSnapshot(s)))]

saveSnapshot(s) ==
  [s EXCEPT !.historyStack = CapHistory(Append(@, currentSnapshot(s))),
            !.redoStack = <<>>]

clearSelection(s) ==
  [s EXCEPT !.selectedTextBoxIds = <<>>,
            !.selectedRectIds = <<>>,
            !.selectedLineIds = <<>>]

installSnapshot_KeepSelection(s, snapshot) ==
  [s EXCEPT !.textBoxes = snapshot.textBoxes,
            !.rectangles = snapshot.rectangles,
            !.lines = snapshot.lines,
            !.nextTextBoxId = snapshot.nextTextBoxId,
            !.nextRectId = snapshot.nextRectId,
            !.nextLineId = snapshot.nextLineId,
            !.nextZIndex = snapshot.nextZIndex,
            !.activeTextBoxId = nullId,
            !.hoveredTextBoxId = nullId,
            !.hoveredRectId = nullId,
            !.hoveredLineId = nullId]

installSnapshot(s, snapshot) ==
  clearSelection(
    [s EXCEPT !.textBoxes = snapshot.textBoxes,
              !.rectangles = snapshot.rectangles,
              !.lines = snapshot.lines,
              !.nextTextBoxId = snapshot.nextTextBoxId,
              !.nextRectId = snapshot.nextRectId,
              !.nextLineId = snapshot.nextLineId,
              !.nextZIndex = snapshot.nextZIndex,
              !.activeTextBoxId = nullId,
              !.hoveredTextBoxId = nullId,
              !.hoveredRectId = nullId,
              !.hoveredLineId = nullId])

undo_KeepCounters(s) ==
  IF Len(s.historyStack) = 0 THEN s
  ELSE [installSnapshot(
          [s EXCEPT !.redoStack = Append(@, currentSnapshot(s)),
                    !.historyStack = SubSeq(@, 1, Len(@) - 1)],
          s.historyStack[Len(s.historyStack)])
          EXCEPT !.nextZIndex = s.nextZIndex, !.nextRectId = s.nextRectId,
                 !.nextLineId = s.nextLineId, !.nextTextBoxId = s.nextTextBoxId]

undo(s) ==
  IF Len(s.historyStack) = 0 THEN s
  ELSE installSnapshot(
         [s EXCEPT !.redoStack = Append(@, currentSnapshot(s)),
                   !.historyStack = SubSeq(@, 1, Len(@) - 1)],
         s.historyStack[Len(s.historyStack)])

redo_NoPush(s) ==
  IF Len(s.redoStack) = 0 THEN s
  ELSE installSnapshot([s EXCEPT !.redoStack = SubSeq(@, 1, Len(@) - 1)],
                       s.redoStack[Len(s.redoStack)])

redo(s) ==
  IF Len(s.redoStack) = 0 THEN s
  ELSE installSnapshot(
         [s EXCEPT !.historyStack = Append(@, currentSnapshot(s)),
                   !.redoStack = SubSeq(@, 1, Len(@) - 1)],
         s.redoStack[Len(s.redoStack)])

----------------------------------------------------------------------------
(* Selection helpers                                                        *)

hasSelection(s) ==
  SetSize(s.selectedTextBoxIds) > 0 \/ SetSize(s.selectedRectIds) > 0
    \/ SetSize(s.selectedLineIds) > 0

getTotalSelectionCount(s) ==
  SetSize(s.selectedTextBoxIds) + SetSize(s.selectedRectIds) + SetSize(s.selectedLineIds)

isMultiSelection(s) == getTotalSelectionCount(s) > 1

selectTextBox(s, id, addToSelection) ==
  LET c == IF addToSelection THEN s ELSE clearSelection(s)
  IN [c EXCEPT !.selectedTextBoxIds = SetAdd(c.selectedTextBoxIds, id)]

\* selectRect that keeps what was selected whatever addToSelection is
selectRect_Add(s, id, addToSelection) ==
  [s EXCEPT !.selectedRectIds = SetAdd(s.selectedRectIds, id)]

selectRect(s, id, addToSelection) ==
  LET c == IF addToSelection THEN s ELSE clearSelection(s)
  IN [c EXCEPT !.selectedRectIds = SetAdd(c.selectedRectIds, id)]

selectLine(s, id, addToSelection) ==
  LET c == IF addToSelection THEN s ELSE clearSelection(s)
  IN [c EXCEPT !.selectedLineIds = SetAdd(c.selectedLineIds, id)]

\* the elements a loop `for id of set: find(e => e.id === id)` reaches
Reached(seq, set, i) == SetHas(set, seq[i].id) /\ FindIndex(seq, seq[i].id) = i

moveSelection(s, dx, dy) ==
  [s EXCEPT
     !.textBoxes = [i \in 1..Len(s.textBoxes) |->
        IF Reached(s.textBoxes, s.selectedTextBoxIds, i)
        THEN [s.textBoxes[i] EXCEPT !.x = @ + dx, !.y = @ + dy]
        ELSE s.textBoxes[i]],
     !.rectangles = [i \in 1..Len(s.rectangles) |->
        IF Reached(s.rectangles, s.selectedRectIds, i)
        THEN [s.rectangles[i] EXCEPT !.x1 = @ + dx, !.y1 = @ + dy,
                                     !.x2 = @ + dx, !.y2 = @ + dy]
        ELSE s.rectangles[i]],
     !.lines = [i \in 1..Len(s.lines) |->
        IF Reached(s.lines, s.selectedLineIds, i)
        THEN [s.lines[i] EXCEPT !.x1 = @ + dx, !.y1 = @ + dy,
                                !.x2 = @ + dx, !.y2 = @ + dy]
        ELSE s.lines[i]]]

----------------------------------------------------------------------------
(* Text box operations                                                      *)

getTextLength(box) == Len(box.chars)

\* the element of highest zIndex among those satisfying Hit, the first of them
\* on a tie (`if (!found || e.zIndex > found.zIndex) found = e`); 0 if none
TopmostIndex(seq, Hit(_)) ==
  IF \E i \in 1..Len(seq) : Hit(seq[i])
  THEN CHOOSE i \in 1..Len(seq) :
         /\ Hit(seq[i])
         /\ \A j \in 1..Len(seq) : Hit(seq[j]) =>
              \/ seq[j].zIndex < seq[i].zIndex
              \/ (seq[j].zIndex = seq[i].zIndex /\ j >= i)
  ELSE 0

isOnTextBox(x, y, box) ==
  x >= box.x /\ x < box.x + Max(1, getTextLength(box)) /\ y = box.y

\* index into textBoxes of the box found, 0 for null
getTextBoxAt(s, x, y) == TopmostIndex(s.textBoxes, LAMBDA b : isOnTextBox(x, y, b))

commitActiveTextBox_KeepEmpty(s) ==
  IF s.activeTextBoxId = nullId THEN s
  ELSE [s EXCEPT !.activeTextBoxId = nullId, !.textCursorPos = 0]

commitActiveTextBox_ReuseId(s) ==
  IF s.activeTextBoxId = nullId THEN s
  ELSE LET Commit(i) ==
             IF i # 0 /\ getTextLength(s.textBoxes[i]) = 0
             THEN [s EXCEPT !.textBoxes = FilterSeq(@, LAMBDA b : b.id # s.activeTextBoxId),
                            !.nextTextBoxId = @ - 1,
                            !.activeTextBoxId = nullId,
                            !.textCursorPos = 0]
             ELSE [s EXCEPT !.activeTextBoxId = nullId, !.textCursorPos = 0]
       IN Commit(FindIndex(s.textBoxes, s.activeTextBoxId))

commitActiveTextBox(s) ==
  IF s.activeTextBoxId = nullId THEN s
  ELSE LET Commit(i) ==
             [s EXCEPT !.textBoxes =
                         IF i # 0 /\ getTextLength(s.textBoxes[i]) = 0
                         THEN FilterSeq(@, LAMBDA b : b.id # s.activeTextBoxId)
                         ELSE @,
                       !.activeTextBoxId = nullId,
                       !.textCursorPos = 0]
       IN Commit(FindIndex(s.textBoxes, s.activeTextBoxId))

deleteTextBox(s, id) ==
  LET Remove(t) ==
        [t EXCEPT !.textBoxes = FilterSeq(@, LAMBDA b : b.id # id),
                  !.activeTextBoxId = IF @ = id THEN nullId ELSE @,
                  !.hoveredTextBoxId = IF @ = id THEN nullId ELSE @]
  IN Remove(saveSnapshot(s))

----------------------------------------------------------------------------
(* Rectangle operations                                                     *)

normalizeRect(rect) ==
  [ x1 |-> Min(rect.x1, rect.x2), y1 |-> Min(rect.y1, rect.y2),
    x2 |-> Max(rect.x1, rect.x2), y2 |-> Max(rect.y1, rect.y2) ]

isOnRectBorder_Extent(x, y, rect) ==
  LET n == normalizeRect(rect)
  IN x >= n.x1 /\ x <= n.x2 /\ y >= n.y1 /\ y <= n.y2

isOnRectBorder(x, y, rect) ==
  LET n == normalizeRect(rect)
      onTopOrBottom == (y = n.y1 \/ y = n.y2) /\ x >= n.x1 /\ x <= n.x2
      onLeftOrRight == (x = n.x1 \/ x = n.x2) /\ y >= n.y1 /\ y <= n.y2
  IN onTopOrBottom \/ onLeftOrRight

getRectangleAt(s, x, y) == TopmostIndex(s.rectangles, LAMBDA r : isOnRectBorder(x, y, r))

\* Math.floor((a + b) / 2)
FloorHalf(n) == n \div 2

\* "null" for no handle
getResizeHandleAt(s, rectId, x, y) ==
  LET i == FindIndex(s.rectangles, rectId)
  IN IF i = 0 THEN "null"
     ELSE LET n == normalizeRect(s.rectangles[i])
              midX == FloorHalf(n.x1 + n.x2)
              midY == FloorHalf(n.y1 + n.y2)
          IN IF x = n.x1 /\ y = n.y1 THEN "nw"
             ELSE IF x = n.x2 /\ y = n.y1 THEN "ne"
             ELSE IF x = n.x1 /\ y = n.y2 THEN "sw"
             ELSE IF x = n.x2 /\ y = n.y2 THEN "se"
             ELSE IF x = midX /\ y = n.y1 THEN "n"
             ELSE IF x = midX /\ y = n.y2 THEN "s"
             ELSE IF x = n.x1 /\ y = midY THEN "w"
             ELSE IF x = n.x2 /\ y = midY THEN "e"
             ELSE "null"

ClampX(s, x) == Max(0, Min(s.gridWidth - 1, x))
ClampY(s, y) == Max(0, Min(s.gridHeight - 1, y))

resizeRect(s, id, mouseX0, mouseY0) ==
  LET i == FindIndex(s.rectangles, id)
      mouseX == ClampX(s, mouseX0)
      mouseY == ClampY(s, mouseY0)
      h == s.resizeHandle
  IN IF i = 0 \/ h = "null" THEN s
     ELSE [s EXCEPT !.rectangles[i] =
             [@ EXCEPT !.x1 = IF h \in {"nw", "sw", "w"} THEN mouseX ELSE @,
                       !.x2 = IF h \in {"ne", "se", "e"} THEN mouseX ELSE @,
                       !.y1 = IF h \in {"nw", "ne", "n"} THEN mouseY ELSE @,
                       !.y2 = IF h \in {"sw", "se", "s"} THEN mouseY ELSE @]]

deleteRect(s, id) ==
  LET Remove(t) ==
        [t EXCEPT !.rectangles = FilterSeq(@, LAMBDA r : r.id # id),
                  !.hoveredRectId = IF @ = id THEN nullId ELSE @]
  IN Remove(saveSnapshot(s))

----------------------------------------------------------------------------
(* Line operations                                                          *)

normalizeLine(line) ==
  [ x1 |-> Min(line.x1, line.x2), y1 |-> Min(line.y1, line.y2),
    x2 |-> Max(line.x1, line.x2), y2 |-> Max(line.y1, line.y2) ]

Abs(n) == IF n < 0 THEN -n ELSE n

\* the loop of getLinePoints, from the cell (x, y) with error term err
RECURSIVE LinePointsFrom(_, _, _, _, _, _, _, _, _)
LinePointsFrom(x, y, err, x2, y2, dx, dy, sx, sy) ==
  IF x = x2 /\ y = y2 THEN << [x |-> x, y |-> y] >>
  ELSE LET e2 == 2 * err
           stepX == e2 > -dy
           err1 == IF stepX THEN err - dy ELSE err
           xn == IF stepX THEN x + sx ELSE x
           stepY == e2 < dx
           err2 == IF stepY THEN err1 + dx ELSE err1
           yn == IF stepY THEN y + sy ELSE y
       IN << [x |-> x, y |-> y] >> \o LinePointsFrom(xn, yn, err2, x2, y2, dx, dy, sx, sy)

\* the columns from x1 to x2 in row y1, then the rows to y2 in column x2
getLinePoints_Elbow(x1, y1, x2, y2) ==
  [k \in 1..(Abs(x2 - x1) + Abs(y2 - y1) + 1) |->
     IF k <= Abs(x2 - x1) + 1
     THEN [x |-> x1 + (IF x1 < x2 THEN k - 1 ELSE 1 - k), y |-> y1]
     ELSE [x |-> x2,
           y |-> y1 + (IF y1 < y2 THEN k - 1 - Abs(x2 - x1) ELSE Abs(x2 - x1) + 1 - k)]]

getLinePoints(x1, y1, x2, y2) ==
  LET dx == Abs(x2 - x1)
      dy == Abs(y2 - y1)
      sx == IF x1 < x2 THEN 1 ELSE -1
      sy == IF y1 < y2 THEN 1 ELSE -1
  IN LinePointsFrom(x1, y1, dx - dy, x2, y2, dx, dy, sx, sy)

isOnLine(x, y, line) ==
  LET n == normalizeLine(line)
  IN IF n.x1 = n.x2 THEN x = n.x1 /\ y >= n.y1 /\ y <= n.y2
     ELSE IF n.y1 = n.y2 THEN y = n.y1 /\ x >= n.x1 /\ x <= n.x2
     ELSE LET points == getLinePoints(n.x1, n.y1, n.x2, n.y2)
          IN \E k \in 1..Len(points) : points[k].x = x /\ points[k].y = y

getLineAt(s, x, y) == TopmostIndex(s.lines, LAMBDA l : isOnLine(x, y, l))

deleteLine(s, id) ==
  LET Remove(t) ==
        [t EXCEPT !.lines = FilterSeq(@, LAMBDA l : l.id # id),
                  !.hoveredLineId = IF @ = id THEN nullId ELSE @]
  IN Remove(saveSnapshot(s))

----------------------------------------------------------------------------
(* Tool management                                                          *)

setTool(s, tool) ==
  LET Switch(c) ==
        [c EXCEPT !.isDrawingRect = FALSE,
                  !.isDrawingLine = FALSE,
                  !.isSelecting = FALSE,
                  !.isSelectionPending = FALSE,
                  !.isDraggingMouse = FALSE,
                  !.currentTool = tool]
      Unselect(t) ==
        IF tool # "move"
        THEN clearSelection([t EXCEPT !.hoveredTextBoxId = nullId,
                                      !.hoveredRectId = nullId,
                                      !.hoveredLineId = nullId])
        ELSE t
  IN Unselect(Switch(IF s.activeTextBoxId # nullId THEN commitActiveTextBox(s) ELSE s))

toggleBold(s) == [s EXCEPT !.boldMode = ~@]

resetCursorBlink(s) == [s EXCEPT !.cursorBlinkVisible = TRUE]

\* the callback of startCursorBlink without its test of activeTextBoxId
cursorBlinkTick_Always(s) == [s EXCEPT !.cursorBlinkVisible = ~@]

\* the callback startCursorBlink hands to setInterval
cursorBlinkTick(s) ==
  IF s.activeTextBoxId # nullId THEN [s EXCEPT !.cursorBlinkVisible = ~@] ELSE s

----------------------------------------------------------------------------
(* Committing a draw or a box selection                                     *)

commitRectangle_SameId(s) ==
  IF ~s.isDrawingRect THEN s
  ELSE LET x1 == Min(s.drawStartX, s.drawCursorX)
           x2 == Max(s.drawStartX, s.drawCursorX)
           y1 == Min(s.drawStartY, s.drawCursorY)
           y2 == Max(s.drawStartY, s.drawCursorY)
           Create(t, id) ==
             selectRect(
               [t EXCEPT !.nextRectId = @ + 1,
                         !.nextZIndex = @ + 1,
                         !.rectangles = Append(@,
                            [ id |-> id, x1 |-> x1, y1 |-> y1, x2 |-> x2, y2 |-> y2,
                              bold |-> t.boldMode, zIndex |-> t.nextZIndex,
                              strokeColor |-> t.currentStrokeColor,
                              fillColor |-> t.currentFillColor ])],
               id, FALSE)
           End(made) == setTool([made EXCEPT !.isDrawingRect = FALSE], "move")
       IN End(IF x2 > x1 \/ y2 > y1 THEN Create(saveSnapshot(s), 1) ELSE s)

\* commitRectangle storing the anchor and the release cell in the order of the
\* drag, as commitLine does
commitRectangle_DragOrder(s) ==
  IF ~s.isDrawingRect THEN s
  ELSE LET x1 == Min(s.drawStartX, s.drawCursorX)
           x2 == Max(s.drawStartX, s.drawCursorX)
           y1 == Min(s.drawStartY, s.drawCursorY)
           y2 == Max(s.drawStartY, s.drawCursorY)
           Create(t, id) ==
             selectRect(
               [t EXCEPT !.nextRectId = @ + 1,
                         !.nextZIndex = @ + 1,
                         !.rectangles = Append(@,
                            [ id |-> id,
                              x1 |-> t.drawStartX, y1 |-> t.drawStartY,
                              x2 |-> t.drawCursorX, y2 |-> t.drawCursorY,
                              bold |-> t.boldMode, zIndex |-> t.nextZIndex,
                              strokeColor |-> t.currentStrokeColor,
                              fillColor |-> t.currentFillColor ])],
               id, FALSE)
           End(made) == setTool([made EXCEPT !.isDrawingRect = FALSE], "move")
       IN End(IF x2 > x1 \/ y2 > y1 THEN Create(saveSnapshot(s), s.nextRectId) ELSE s)

commitRectangle(s) ==
  IF ~s.isDrawingRect THEN s
  ELSE LET x1 == Min(s.drawStartX, s.drawCursorX)
           x2 == Max(s.drawStartX, s.drawCursorX)
           y1 == Min(s.drawStartY, s.drawCursorY)
           y2 == Max(s.drawStartY, s.drawCursorY)
           Create(t, id) ==
             selectRect(
               [t EXCEPT !.nextRectId = @ + 1,
                         !.nextZIndex = @ + 1,
                         !.rectangles = Append(@,
                            [ id |-> id, x1 |-> x1, y1 |-> y1, x2 |-> x2, y2 |-> y2,
                              bold |-> t.boldMode, zIndex |-> t.nextZIndex,
                              strokeColor |-> t.currentStrokeColor,
                              fillColor |-> t.currentFillColor ])],
               id, FALSE)
           End(made) == setTool([made EXCEPT !.isDrawingRect = FALSE], "move")
       IN End(IF x2 > x1 \/ y2 > y1 THEN Create(saveSnapshot(s), s.nextRectId) ELSE s)

commitLine_SameZ(s) ==
  IF ~s.isDrawingLine THEN s
  ELSE LET Create(t) ==
             selectLine(
               [t EXCEPT !.nextLineId = @ + 1,
                         !.lines = Append(@,
                            [ id |-> t.nextLineId,
                              x1 |-> t.drawStartX, y1 |-> t.drawStartY,
                              x2 |-> t.drawCursorX, y2 |-> t.drawCursorY,
                              bold |-> t.boldMode, zIndex |-> t.nextZIndex,
                              strokeColor |-> t.currentStrokeColor,
                              fillColor |-> null ])],
               t.nextLineId, FALSE)
           End(made) == setTool([made EXCEPT !.isDrawingLine = FALSE], "move")
       IN End(IF s.drawStartX # s.drawCursorX \/ s.drawStartY # s.drawCursorY
              THEN Create(saveSnapshot(s)) ELSE s)

\* commitLine without the test on the endpoints: a zero-length line is created
commitLine_Degenerate(s) ==
  IF ~s.isDrawingLine THEN s
  ELSE LET Create(t) ==
             selectLine(
               [t EXCEPT !.nextLineId = @ + 1,
                         !.nextZIndex = @ + 1,
                         !.lines = Append(@,
                            [ id |-> t.nextLineId,
                              x1 |-> t.drawStartX, y1 |-> t.drawStartY,
                              x2 |-> t.drawCursorX, y2 |-> t.drawCursorY,
                              bold |-> t.boldMode, zIndex |-> t.nextZIndex,
                              strokeColor |-> t.currentStrokeColor,
                              fillColor |-> null ])],
               t.nextLineId, FALSE)
           End(made) == setTool([made EXCEPT !.isDrawingLine = FALSE], "move")
       IN End(Create(saveSnapshot(s)))


commitLine(s) ==
  IF ~s.isDrawingLine THEN s
  ELSE LET Create(t) ==
             selectLine(
               [t EXCEPT !.nextLineId = @ + 1,
                         !.nextZIndex = @ + 1,
                         !.lines = Append(@,
                            [ id |-> t.nextLineId,
                              x1 |-> t.drawStartX, y1 |-> t.drawStartY,
                              x2 |-> t.drawCursorX, y2 |-> t.drawCursorY,
                              bold |-> t.boldMode, zIndex |-> t.nextZIndex,
                              strokeColor |-> t.currentStrokeColor,
                              fillColor |-> null ])],
               t.nextLineId, FALSE)
           End(made) == setTool([made EXCEPT !.isDrawingLine = FALSE], "move")
       IN End(IF s.drawStartX # s.drawCursorX \/ s.drawStartY # s.drawCursorY
              THEN Create(saveSnapshot(s)) ELSE s)

\* the ids, in array order, of the elements whose bounding box meets the marquee
RECURSIVE AddAll(_, _)
AddAll(set, ids) ==
  IF ids = <<>> THEN set ELSE AddAll(SetAdd(set, Head(ids)), Tail(ids))

IdsOf(seq) == [i \in 1..Len(seq) |-> seq[i].id]

\* selects what the marquee covers whole
commitSelection_Covered(s) ==
  IF ~s.isSelecting THEN s
  ELSE LET selX1 == Min(s.drawStartX, s.drawCursorX)
           selX2 == Max(s.drawStartX, s.drawCursorX)
           selY1 == Min(s.drawStartY, s.drawCursorY)
           selY2 == Max(s.drawStartY, s.drawCursorY)
           isCovered(x1, y1, x2, y2) ==
             x1 >= selX1 /\ x2 <= selX2 /\ y1 >= selY1 /\ y2 <= selY2
           boxHit(box) ==
             isCovered(box.x, box.y, box.x + Max(1, getTextLength(box)) - 1, box.y)
           rectHit(rect) ==
             LET n == normalizeRect(rect) IN isCovered(n.x1, n.y1, n.x2, n.y2)
           lineHit(line) ==
             LET n == normalizeLine(line) IN isCovered(n.x1, n.y1, n.x2, n.y2)
       IN [s EXCEPT
             !.selectedTextBoxIds = AddAll(@, IdsOf(FilterSeq(s.textBoxes, boxHit))),
             !.selectedRectIds = AddAll(@, IdsOf(FilterSeq(s.rectangles, rectHit))),
             !.selectedLineIds = AddAll(@, IdsOf(FilterSeq(s.lines, lineHit))),
             !.isSelecting = FALSE]

commitSelection(s) ==
  IF ~s.isSelecting THEN s
  ELSE LET selX1 == Min(s.drawStartX, s.drawCursorX)
           selX2 == Max(s.drawStartX, s.drawCursorX)
           selY1 == Min(s.drawStartY, s.drawCursorY)
           selY2 == Max(s.drawStartY, s.drawCursorY)
           isIntersecting(x1, y1, x2, y2) ==
             ~(x2 < selX1 \/ x1 > selX2 \/ y2 < selY1 \/ y1 > selY2)
           boxHit(box) ==
             isIntersecting(box.x, box.y,
                            box.x + Max(1, getTextLength(box)) - 1, box.y)
           rectHit(rect) ==
             LET n == normalizeRect(rect) IN isIntersecting(n.x1, n.y1, n.x2, n.y2)
           lineHit(line) ==
             LET n == normalizeLine(line) IN isIntersecting(n.x1, n.y1, n.x2, n.y2)
       IN [s EXCEPT
             !.selectedTextBoxIds = AddAll(@, IdsOf(FilterSeq(s.textBoxes, boxHit))),
             !.selectedRectIds = AddAll(@, IdsOf(FilterSeq(s.rectangles, rectHit))),
             !.selectedLineIds = AddAll(@, IdsOf(FilterSeq(s.lines, lineHit))),
             !.isSelecting = FALSE]

----------------------------------------------------------------------------
(* Layer management                                                         *)

\* type "none" for null
getSelectedObject(s) ==
  LET ti == FindIndex(s.textBoxes, SetFirst(s.selectedTextBoxIds))
      ri == FindIndex(s.rectangles, SetFirst(s.selectedRectIds))
      li == FindIndex(s.lines, SetFirst(s.selectedLineIds))
  IN IF SetSize(s.selectedTextBoxIds) = 1 /\ ti # 0
     THEN [type |-> "text", zIndex |-> s.textBoxes[ti].zIndex, id |-> s.textBoxes[ti].id]
     ELSE IF SetSize(s.selectedRectIds) = 1 /\ ri # 0
     THEN [type |-> "rect", zIndex |-> s.rectangles[ri].zIndex, id |-> s.rectangles[ri].id]
     ELSE IF SetSize(s.selectedLineIds) = 1 /\ li # 0
     THEN [type |-> "line", zIndex |-> s.lines[li].zIndex, id |-> s.lines[li].id]
     ELSE [type |-> "none", zIndex |-> 0, id |-> nullId]

ZsOf(seq) == [i \in 1..Len(seq) |-> seq[i].zIndex]

getAllZIndices(s) == SortAsc(ZsOf(s.textBoxes) \o ZsOf(s.rectangles) \o ZsOf(s.lines))

\* `for (const e of seq) if (e.zIndex === z) { e.zIndex = newZ; break }`
SetFirstWithZ(seq, z, newZ) ==
  LET i == IndexOf(ZsOf(seq), z)
  IN IF i = 0 THEN seq ELSE [seq EXCEPT ![i].zIndex = newZ]

SetZById(seq, id, newZ) ==
  LET i == FindIndex(seq, id)
  IN IF i = 0 THEN seq ELSE [seq EXCEPT ![i].zIndex = newZ]

\* the body shared by moveLayerDown and moveLayerUp once the neighbour's z is known
swapZIndex(s, selected, otherZ) ==
  LET SetOther(t) ==
        [t EXCEPT !.textBoxes = SetFirstWithZ(@, otherZ, selected.zIndex),
                  !.rectangles = SetFirstWithZ(@, otherZ, selected.zIndex),
                  !.lines = SetFirstWithZ(@, otherZ, selected.zIndex)]
      SetSelected(u) ==
        [u EXCEPT
           !.textBoxes = IF selected.type = "text" THEN SetZById(@, selected.id, otherZ) ELSE @,
           !.rectangles = IF selected.type = "rect" THEN SetZById(@, selected.id, otherZ) ELSE @,
           !.lines = IF selected.type = "line" THEN SetZById(@, selected.id, otherZ) ELSE @]
  IN SetSelected(SetOther(saveSnapshot(s)))

moveLayerDown(s) ==
  LET Move(selected, allZIndices, currentIndex) ==
        IF selected.type = "none" THEN s
        ELSE IF currentIndex <= 1 THEN s
        ELSE swapZIndex(s, selected, allZIndices[currentIndex - 1])
      Find(selected, allZIndices) ==
        Move(selected, allZIndices, IndexOf(allZIndices, selected.zIndex))
  IN Find(getSelectedObject(s), getAllZIndices(s))

moveLayerUp_NoSwap(s) ==
  LET Raise(t, selected, higherZ) ==
        [t EXCEPT
           !.textBoxes = IF selected.type = "text" THEN SetZById(@, selected.id, higherZ) ELSE @,
           !.rectangles = IF selected.type = "rect" THEN SetZById(@, selected.id, higherZ) ELSE @,
           !.lines = IF selected.type = "line" THEN SetZById(@, selected.id, higherZ) ELSE @]
      Move(selected, allZIndices, currentIndex) ==
        IF selected.type = "none" THEN s
        ELSE IF currentIndex >= Len(allZIndices) THEN s
        ELSE Raise(saveSnapshot(s), selected, allZIndices[currentIndex + 1])
      Find(selected, allZIndices) ==
        Move(selected, allZIndices, IndexOf(allZIndices, selected.zIndex))
  IN Find(getSelectedObject(s), getAllZIndices(s))

moveLayerUp(s) ==
  LET Move(selected, allZIndices, currentIndex) ==
        IF selected.type = "none" THEN s
        ELSE IF currentIndex >= Len(allZIndices) THEN s
        ELSE swapZIndex(s, selected, allZIndices[currentIndex + 1])
      Find(selected, allZIndices) ==
        Move(selected, allZIndices, IndexOf(allZIndices, selected.zIndex))
  IN Find(getSelectedObject(s), getAllZIndices(s))

----------------------------------------------------------------------------
(* Colors of the selection, the palette                                     *)

applyStrokeColorToSelection(s) ==
  LET Recolor(t, c) ==
        [t EXCEPT
           !.textBoxes = [i \in 1..Len(t.textBoxes) |->
              IF Reached(t.textBoxes, t.selectedTextBoxIds, i)
              THEN [t.textBoxes[i] EXCEPT
                      !.strokeColor = c,
                      !.chars = [k \in 1..Len(t.textBoxes[i].chars) |->
                                   [t.textBoxes[i].chars[k] EXCEPT !.color = c]]]
              ELSE t.textBoxes[i]],
           !.rectangles = [i \in 1..Len(t.rectangles) |->
              IF Reached(t.rectangles, t.selectedRectIds, i)
              THEN [t.rectangles[i] EXCEPT !.strokeColor = c]
              ELSE t.rectangles[i]],
           !.lines = [i \in 1..Len(t.lines) |->
              IF Reached(t.lines, t.selectedLineIds, i)
              THEN [t.lines[i] EXCEPT !.strokeColor = c]
              ELSE t.lines[i]]]
  IN IF ~hasSelection(s) THEN s ELSE Recolor(saveSnapshot(s), s.currentStrokeColor)

applyFillColorToSelection(s) ==
  LET Recolor(t, c) ==
        [t EXCEPT
           !.textBoxes = [i \in 1..Len(t.textBoxes) |->
              IF Reached(t.textBoxes, t.selectedTextBoxIds, i)
              THEN [t.textBoxes[i] EXCEPT !.fillColor = c]
              ELSE t.textBoxes[i]],
           !.rectangles = [i \in 1..Len(t.rectangles) |->
              IF Reached(t.rectangles, t.selectedRectIds, i)
              THEN [t.rectangles[i] EXCEPT !.fillColor = c]
              ELSE t.rectangles[i]]]
  IN IF ~hasSelection(s) THEN s ELSE Recolor(saveSnapshot(s), s.currentFillColor)

strokeColorsStart(s) == (s.gridWidth - pickerWidth) + 8
fillColorsStart(s) == (s.gridWidth - pickerWidth) + 8 + Len(STROKE_PALETTE) + 2 + 6

\* [handled, state]: whether the click was a palette click, and what it left
handleColorPickerClick(s, x, y) ==
  LET pickerY == s.gridHeight - 1
      startX == s.gridWidth - pickerWidth
      strokeColorsEnd == strokeColorsStart(s) + Len(STROKE_PALETTE) - 1
      fillColorsEnd == fillColorsStart(s) + Len(FILL_PALETTE) - 1
  IN IF y # pickerY \/ x < startX THEN [handled |-> FALSE, state |-> s]
     ELSE IF x >= strokeColorsStart(s) /\ x <= strokeColorsEnd
     THEN LET colorIndex == x - strokeColorsStart(s)
          IN [handled |-> TRUE,
              state |-> applyStrokeColorToSelection(
                 [s EXCEPT !.currentStrokeColorIndex = colorIndex,
                           !.currentStrokeColor = STROKE_PALETTE[colorIndex + 1]])]
     ELSE IF x >= fillColorsStart(s) /\ x <= fillColorsEnd
     THEN LET colorIndex == x - fillColorsStart(s)
          IN [handled |-> TRUE,
              state |-> applyFillColorToSelection(
                 [s EXCEPT !.currentFillColorIndex = colorIndex,
                           !.currentFillColor = FILL_PALETTE[colorIndex + 1]])]
     ELSE [handled |-> FALSE, state |-> s]

----------------------------------------------------------------------------
(* Hover                                                                    *)

updateHover(s, x, y) ==
  LET Pick(ti, ri, li) ==
        LET z0 == -1
            z1 == IF ti # 0 /\ s.textBoxes[ti].zIndex > z0 THEN s.textBoxes[ti].zIndex ELSE z0
            t1 == IF ti # 0 /\ s.textBoxes[ti].zIndex > z0 THEN "text" ELSE "none"
            z2 == IF ri # 0 /\ s.rectangles[ri].zIndex > z1 THEN s.rectangles[ri].zIndex ELSE z1
            t2 == IF ri # 0 /\ s.rectangles[ri].zIndex > z1 THEN "rect" ELSE t1
            t3 == IF li # 0 /\ s.lines[li].zIndex > z2 THEN "line" ELSE t2
        IN [s EXCEPT
              !.hoveredTextBoxId = IF t3 = "text" THEN s.textBoxes[ti].id ELSE nullId,
              !.hoveredRectId = IF t3 = "rect" THEN s.rectangles[ri].id ELSE nullId,
              !.hoveredLineId = IF t3 = "line" THEN s.lines[li].id ELSE nullId]
  IN IF s.currentTool # "move"
     THEN [s EXCEPT !.hoveredTextBoxId = nullId, !.hoveredRectId = nullId,
                    !.hoveredLineId = nullId]
     ELSE IF /\ SetSize(s.selectedRectIds) = 1 /\ ~isMultiSelection(s)
             /\ getResizeHandleAt(s, SetFirst(s.selectedRectIds), x, y) # "null"
     THEN [s EXCEPT !.hoveredTextBoxId = nullId,
                    !.hoveredRectId = SetFirst(s.selectedRectIds),
                    !.hoveredLineId = nullId]
     ELSE Pick(getTextBoxAt(s, x, y), getRectangleAt(s, x, y), getLineAt(s, x, y))

----------------------------------------------------------------------------
(* Mouse handling.  An event is [type, x, y, shift].                        *)

\* the drag that keeps measuring from the cell of the pointer-down
handleMouseDrag_FromStart(s, event) ==
  LET Dragged(a) ==
        IF event.x # a.mouseDownX \/ event.y # a.mouseDownY
        THEN [a EXCEPT !.hasDragged = TRUE] ELSE a
      Marquee(a) ==
        IF a.isSelectionPending /\ a.hasDragged /\ a.currentTool = "move"
        THEN [a EXCEPT !.isSelectionPending = FALSE, !.isSelecting = TRUE,
                       !.isDraggingMouse = TRUE]
        ELSE a
      Act(b) ==
        IF b.isDraggingSelection
        THEN moveSelection(b, event.x - b.dragStartX, event.y - b.dragStartY)
        ELSE IF b.isResizingRect
        THEN IF SetFirst(b.selectedRectIds) # nullId
             THEN resizeRect(b, SetFirst(b.selectedRectIds), event.x, event.y)
             ELSE b
        ELSE IF b.isDrawingRect \/ b.isDrawingLine \/ b.isSelecting
        THEN [b EXCEPT !.drawCursorX = ClampX(b, event.x),
                       !.drawCursorY = ClampY(b, event.y)]
        ELSE b
  IN Act(Marquee(Dragged(s)))

\* event.type === "drag"
handleMouseDrag(s, event) ==
  LET Dragged(a) ==
        IF event.x # a.mouseDownX \/ event.y # a.mouseDownY
        THEN [a EXCEPT !.hasDragged = TRUE] ELSE a
      Marquee(a) ==
        IF a.isSelectionPending /\ a.hasDragged /\ a.currentTool = "move"
        THEN [a EXCEPT !.isSelectionPending = FALSE, !.isSelecting = TRUE,
                       !.isDraggingMouse = TRUE]
        ELSE a
      Act(b) ==
        IF b.isDraggingSelection
        THEN [moveSelection(b, event.x - b.dragStartX, event.y - b.dragStartY)
                EXCEPT !.dragStartX = event.x, !.dragStartY = event.y]
        ELSE IF b.isResizingRect
        THEN IF SetFirst(b.selectedRectIds) # nullId
             THEN resizeRect(b, SetFirst(b.selectedRectIds), event.x, event.y)
             ELSE b
        ELSE IF b.isDrawingRect \/ b.isDrawingLine \/ b.isSelecting
        THEN [b EXCEPT !.drawCursorX = ClampX(b, event.x),
                       !.drawCursorY = ClampY(b, event.y)]
        ELSE b
  IN Act(Marquee(Dragged(s)))

SetDrawCursor(s, event) ==
  [s EXCEPT !.drawCursorX = ClampX(s, event.x), !.drawCursorY = ClampY(s, event.y)]

\* the pointer-up enters the edit of the clicked run after a drag too
handleMouseUp_EditAfterDrag(s, event) ==
  LET Rect(a) == IF a.isDrawingRect THEN commitRectangle(SetDrawCursor(a, event)) ELSE a
      Line(a) == IF a.isDrawingLine THEN commitLine(SetDrawCursor(a, event)) ELSE a
      Marquee(a) == IF a.isSelecting THEN commitSelection(SetDrawCursor(a, event)) ELSE a
      Edit(c, ti) ==
        IF /\ c.clickedOnSelectedTextBox
           /\ SetSize(c.selectedTextBoxIds) = 1 /\ ti # 0
        THEN resetCursorBlink(clearSelection(
               [c EXCEPT !.activeTextBoxId = c.textBoxes[ti].id,
                         !.textCursorPos = Min(event.x - c.textBoxes[ti].x,
                                               getTextLength(c.textBoxes[ti]))]))
        ELSE c
      Click(c) == Edit(c, FindIndex(c.textBoxes, SetFirst(c.selectedTextBoxIds)))
      Reset(d) ==
        [d EXCEPT !.isDraggingSelection = FALSE,
                  !.isResizingRect = FALSE,
                  !.resizeHandle = "null",
                  !.isDraggingMouse = FALSE,
                  !.clickedOnSelectedTextBox = FALSE,
                  !.hasDragged = FALSE,
                  !.isSelecting = FALSE,
                  !.isSelectionPending = FALSE]
  IN Reset(Click(Marquee(Line(Rect(s)))))

\* handleMouse on up entering the edit without clearSelection()
handleMouseUp_KeepSelection(s, event) ==
  LET Rect(a) == IF a.isDrawingRect THEN commitRectangle(SetDrawCursor(a, event)) ELSE a
      Line(a) == IF a.isDrawingLine THEN commitLine(SetDrawCursor(a, event)) ELSE a
      Marquee(a) == IF a.isSelecting THEN commitSelection(SetDrawCursor(a, event)) ELSE a
      Edit(c, ti) ==
        IF /\ c.clickedOnSelectedTextBox /\ ~c.hasDragged
           /\ SetSize(c.selectedTextBoxIds) = 1 /\ ti # 0
        THEN resetCursorBlink(
               [c EXCEPT !.activeTextBoxId = c.textBoxes[ti].id,
                         !.textCursorPos = Min(event.x - c.textBoxes[ti].x,
                                               getTextLength(c.textBoxes[ti]))])
        ELSE c
      Click(c) == Edit(c, FindIndex(c.textBoxes, SetFirst(c.selectedTextBoxIds)))
      Reset(d) ==
        [d EXCEPT !.isDraggingSelection = FALSE,
                  !.isResizingRect = FALSE,
                  !.resizeHandle = "null",
                  !.isDraggingMouse = FALSE,
                  !.clickedOnSelectedTextBox = FALSE,
                  !.hasDragged = FALSE,
                  !.isSelecting = FALSE,
                  !.isSelectionPending = FALSE]
  IN Reset(Click(Marquee(Line(Rect(s)))))

\* event.type === "up" || event.type === "drag-end"
handleMouseUp(s, event) ==
  LET Rect(a) == IF a.isDrawingRect THEN commitRectangle(SetDrawCursor(a, event)) ELSE a
      Line(a) == IF a.isDrawingLine THEN commitLine(SetDrawCursor(a, event)) ELSE a
      Marquee(a) == IF a.isSelecting THEN commitSelection(SetDrawCursor(a, event)) ELSE a
      Edit(c, ti) ==
        IF /\ c.clickedOnSelectedTextBox /\ ~c.hasDragged
           /\ SetSize(c.selectedTextBoxIds) = 1 /\ ti # 0
        THEN resetCursorBlink(clearSelection(
               [c EXCEPT !.activeTextBoxId = c.textBoxes[ti].id,
                         !.textCursorPos = Min(event.x - c.textBoxes[ti].x,
                                               getTextLength(c.textBoxes[ti]))]))
        ELSE c
      Click(c) == Edit(c, FindIndex(c.textBoxes, SetFirst(c.selectedTextBoxIds)))
      Reset(d) ==
        [d EXCEPT !.isDraggingSelection = FALSE,
                  !.isResizingRect = FALSE,
                  !.resizeHandle = "null",
                  !.isDraggingMouse = FALSE,
                  !.clickedOnSelectedTextBox = FALSE,
                  !.hasDragged = FALSE,
                  !.isSelecting = FALSE,
                  !.isSelectionPending = FALSE]
  IN Reset(Click(Marquee(Line(Rect(s)))))

\* "Prepare for dragging all selected items"
startDraggingSelection(s, event) ==
  [saveSnapshot(s) EXCEPT !.isDraggingSelection = TRUE,
                          !.dragStartX = event.x,
                          !.dragStartY = event.y,
                          !.isDraggingMouse = TRUE]

\* event.type === "down" with the move tool
handleMouseDownMove(s0, event) ==
  LET shiftHeld == event.shift
      Toggle(set, id) == IF SetHas(set, id) THEN SetDelete(set, id) ELSE SetAdd(set, id)
      OnText(s, id, alreadySelected) ==
        LET Arm(a) ==
              IF alreadySelected /\ ~shiftHeld /\ ~isMultiSelection(a)
              THEN [a EXCEPT !.clickedOnSelectedTextBox = TRUE] ELSE a
            Select(a) ==
              IF shiftHeld THEN [a EXCEPT !.selectedTextBoxIds = Toggle(@, id)]
              ELSE IF ~alreadySelected THEN selectTextBox(a, id, FALSE)
              ELSE a
        IN startDraggingSelection(Select(Arm(s)), event)
      OnRect(s, id, alreadySelected) ==
        startDraggingSelection(
          IF shiftHeld THEN [s EXCEPT !.selectedRectIds = Toggle(@, id)]
          ELSE IF ~alreadySelected THEN selectRect(s, id, FALSE)
          ELSE s,
          event)
      OnLine(s, id, alreadySelected) ==
        startDraggingSelection(
          IF shiftHeld THEN [s EXCEPT !.selectedLineIds = Toggle(@, id)]
          ELSE IF ~alreadySelected THEN selectLine(s, id, FALSE)
          ELSE s,
          event)
      OnEmpty(c) ==
        [c EXCEPT !.isSelectionPending = TRUE,
                  !.drawStartX = event.x, !.drawStartY = event.y,
                  !.drawCursorX = event.x, !.drawCursorY = event.y]
      Act(s, handle, ti, ri, li) ==
        IF handle # "null"
        THEN [saveSnapshot(s) EXCEPT !.isResizingRect = TRUE,
                                     !.resizeHandle = handle,
                                     !.isDraggingMouse = TRUE]
        ELSE IF ti # 0
        THEN OnText(s, s.textBoxes[ti].id,
                    SetHas(s.selectedTextBoxIds, s.textBoxes[ti].id))
        ELSE IF ri # 0
        THEN OnRect(s, s.rectangles[ri].id,
                    SetHas(s.selectedRectIds, s.rectangles[ri].id))
        ELSE IF li # 0
        THEN OnLine(s, s.lines[li].id, SetHas(s.selectedLineIds, s.lines[li].id))
        ELSE OnEmpty(IF ~shiftHeld THEN clearSelection(s) ELSE s)
      Hit(s) ==
        Act(s,
            IF SetSize(s.selectedRectIds) = 1 /\ ~isMultiSelection(s)
            THEN getResizeHandleAt(s, SetFirst(s.selectedRectIds), event.x, event.y)
            ELSE "null",
            getTextBoxAt(s, event.x, event.y),
            getRectangleAt(s, event.x, event.y),
            getLineAt(s, event.x, event.y))
  IN Hit([s0 EXCEPT !.mouseDownX = event.x, !.mouseDownY = event.y,
                    !.hasDragged = FALSE, !.clickedOnSelectedTextBox = FALSE])

\* event.type === "down" with the text, rectangle or line tool
handleMouseDownDraw(s0, event) ==
  LET Create(t) ==
        resetCursorBlink(
          [t EXCEPT !.nextTextBoxId = @ + 1,
                    !.nextZIndex = @ + 1,
                    !.textBoxes = Append(@,
                       [ id |-> t.nextTextBoxId, x |-> event.x, y |-> event.y,
                         chars |-> <<>>, zIndex |-> t.nextZIndex,
                         strokeColor |-> t.currentStrokeColor,
                         fillColor |-> null ]),
                    !.activeTextBoxId = t.nextTextBoxId,
                    !.textCursorPos = 0])
      Act(s, ti) ==
        IF s.currentTool = "text"
        THEN IF ti # 0
             THEN resetCursorBlink(
                    [s EXCEPT !.activeTextBoxId = s.textBoxes[ti].id,
                              !.textCursorPos = Min(event.x - s.textBoxes[ti].x,
                                                    getTextLength(s.textBoxes[ti]))])
             ELSE Create(saveSnapshot(s))
        ELSE IF s.currentTool = "rectangle"
        THEN [s EXCEPT !.isDrawingRect = TRUE, !.isDraggingMouse = TRUE,
                       !.drawStartX = event.x, !.drawStartY = event.y,
                       !.drawCursorX = event.x, !.drawCursorY = event.y]
        ELSE IF s.currentTool = "line"
        THEN [s EXCEPT !.isDrawingLine = TRUE, !.isDraggingMouse = TRUE,
                       !.drawStartX = event.x, !.drawStartY = event.y,
                       !.drawCursorX = event.x, !.drawCursorY = event.y]
        ELSE s
      Hit(s) == Act(s, getTextBoxAt(s, event.x, event.y))
  IN Hit(clearSelection(s0))

\* event.type === "down", after the palette
handleMouseDown(s, event) ==
  LET Dispatch(c) ==
        IF c.currentTool = "move" THEN handleMouseDownMove(c, event)
        ELSE handleMouseDownDraw(c, event)
      Act(ai) ==
        IF s.activeTextBoxId # nullId /\ ai # 0
             /\ isOnTextBox(event.x, event.y, s.textBoxes[ai])
        THEN resetCursorBlink(
               [s EXCEPT !.textCursorPos = Min(event.x - s.textBoxes[ai].x,
                                               getTextLength(s.textBoxes[ai]))])
        ELSE Dispatch(IF s.activeTextBoxId # nullId
                      THEN setTool(commitActiveTextBox(s), "move")
                      ELSE s)
  IN Act(FindIndex(s.textBoxes, s.activeTextBoxId))

handleMouse(s, event) ==
  LET Route(picked) ==
        IF event.type = "down" /\ picked.handled THEN picked.state
        ELSE IF event.type = "move" THEN updateHover(s, event.x, event.y)
        ELSE IF event.type = "drag" THEN handleMouseDrag(s, event)
        ELSE IF event.type \in {"up", "drag-end"} THEN handleMouseUp(s, event)
        ELSE IF event.type = "down" THEN handleMouseDown(s, event)
        ELSE s
  IN IF event.y >= s.gridHeight THEN s
     ELSE Route(handleColorPickerClick(s, event.x, event.y))

----------------------------------------------------------------------------
(* File save/load.  A serialized color is [r, g, b, a] or null; an array   *)
(* field of a parsed file is [isArray, elems], isArray FALSE when the field *)
(* is missing or no array.                                                  *)

serializeColor(color) ==
  IF color = null THEN null
  ELSE [r |-> color.buffer[1], g |-> color.buffer[2],
        b |-> color.buffer[3], a |-> color.buffer[4]]

deserializeColor_SwapRB(color) ==
  IF color = null THEN null
  ELSE RGBA_fromValues(color.b, color.g, color.r, color.a)

deserializeColor(color) ==
  IF color = null THEN null
  ELSE RGBA_fromValues(color.r, color.g, color.b, color.a)

serializeTextBox(box) ==
  [ id |-> box.id, x |-> box.x, y |-> box.y,
    chars |-> [k \in 1..Len(box.chars) |->
                 [char |-> box.chars[k].char, bold |-> box.chars[k].bold,
                  color |-> serializeColor(box.chars[k].color)]],
    zIndex |-> box.zIndex,
    strokeColor |-> serializeColor(box.strokeColor),
    fillColor |-> serializeColor(box.fillColor) ]

deserializeTextBox(box) ==
  [ id |-> box.id, x |-> box.x, y |-> box.y,
    chars |-> [k \in 1..Len(box.chars) |->
                 [char |-> box.chars[k].char, bold |-> box.chars[k].bold,
                  color |-> deserializeColor(box.chars[k].color)]],
    zIndex |-> box.zIndex,
    strokeColor |-> deserializeColor(box.strokeColor),
    fillColor |-> deserializeColor(box.fillColor) ]

serializeRectangle(rect) ==
  [ id |-> rect.id, x1 |-> rect.x1, y1 |-> rect.y1, x2 |-> rect.x2, y2 |-> rect.y2,
    bold |-> rect.bold, zIndex |-> rect.zIndex,
    strokeColor |-> serializeColor(rect.strokeColor),
    fillColor |-> serializeColor(rect.fillColor) ]

deserializeRectangle(rect) ==
  [ id |-> rect.id, x1 |-> rect.x1, y1 |-> rect.y1, x2 |-> rect.x2, y2 |-> rect.y2,
    bold |-> rect.bold, zIndex |-> rect.zIndex,
    strokeColor |-> deserializeColor(rect.strokeColor),
    fillColor |-> deserializeColor(rect.fillColor) ]

serializeLine(line) ==
  [ id |-> line.id, x1 |-> line.x1, y1 |-> line.y1, x2 |-> line.x2, y2 |-> line.y2,
    bold |-> line.bold, zIndex |-> line.zIndex,
    strokeColor |-> serializeColor(line.strokeColor),
    fillColor |-> serializeColor(line.fillColor) ]

deserializeLine(line) ==
  [ id |-> line.id, x1 |-> line.x1, y1 |-> line.y1, x2 |-> line.x2, y2 |-> line.y2,
    bold |-> line.bold, zIndex |-> line.zIndex,
    strokeColor |-> deserializeColor(line.strokeColor),
    fillColor |-> deserializeColor(line.fillColor) ]

JArray(elems) == [isArray |-> TRUE, elems |-> elems]
JMissing == [isArray |-> FALSE, elems |-> <<>>]

toFileData(s) ==
  [ version       |-> 1,
    textBoxes     |-> JArray([i \in 1..Len(s.textBoxes) |-> serializeTextBox(s.textBoxes[i])]),
    rectangles    |-> JArray([i \in 1..Len(s.rectangles) |-> serializeRectangle(s.rectangles[i])]),
    lines         |-> JArray([i \in 1..Len(s.lines) |-> serializeLine(s.lines[i])]),
    nextTextBoxId |-> s.nextTextBoxId,
    nextRectId    |-> s.nextRectId,
    nextLineId    |-> s.nextLineId,
    nextZIndex    |-> s.nextZIndex ]

loadFromFileData_KeepHistory(s, data) ==
  [threw |-> ~(data.textBoxes.isArray /\ data.rectangles.isArray /\ data.lines.isArray),
   state |-> IF data.textBoxes.isArray /\ data.rectangles.isArray /\ data.lines.isArray
             THEN clearSelection(
                    [s EXCEPT
                       !.textBoxes = [i \in 1..Len(data.textBoxes.elems) |->
                                        deserializeTextBox(data.textBoxes.elems[i])],
                       !.rectangles = [i \in 1..Len(data.rectangles.elems) |->
                                         deserializeRectangle(data.rectangles.elems[i])],
                       !.lines = [i \in 1..Len(data.lines.elems) |->
                                    deserializeLine(data.lines.elems[i])],
                       !.nextTextBoxId = data.nextTextBoxId,
                       !.nextRectId = data.nextRectId,
                       !.nextLineId = data.nextLineId,
                       !.nextZIndex = data.nextZIndex,
                       !.activeTextBoxId = nullId,
                       !.hoveredTextBoxId = nullId,
                       !.hoveredRectId = nullId,
                       !.hoveredLineId = nullId])
             ELSE s]

\* [threw, state]: the assignments run in order; `.map` of a field that is no
\* array throws and leaves what was assigned before it
loadFromFileData(s, data) ==
  LET Texts(a) ==
        [a EXCEPT !.textBoxes = [i \in 1..Len(data.textBoxes.elems) |->
                                   deserializeTextBox(data.textBoxes.elems[i])]]
      Rects(a) ==
        [a EXCEPT !.rectangles = [i \in 1..Len(data.rectangles.elems) |->
                                    deserializeRectangle(data.rectangles.elems[i])]]
      Lines(a) ==
        [a EXCEPT !.lines = [i \in 1..Len(data.lines.elems) |->
                               deserializeLine(data.lines.elems[i])]]
      Rest(a) ==
        [clearSelection(a) EXCEPT !.nextTextBoxId = data.nextTextBoxId,
                                  !.nextRectId = data.nextRectId,
                                  !.nextLineId = data.nextLineId,
                                  !.nextZIndex = data.nextZIndex,
                                  !.activeTextBoxId = nullId,
                                  !.hoveredTextBoxId = nullId,
                                  !.hoveredRectId = nullId,
                                  !.hoveredLineId = nullId,
                                  !.historyStack = <<>>,
                                  !.redoStack = <<>>]
  IN IF ~data.textBoxes.isArray THEN [threw |-> TRUE, state |-> s]
     ELSE IF ~data.rectangles.isArray THEN [threw |-> TRUE, state |-> Texts(s)]
     ELSE IF ~data.lines.isArray THEN [threw |-> TRUE, state |-> Rects(Texts(s))]
     ELSE [threw |-> FALSE, state |-> Rest(Lines(Rects(Texts(s))))]

loadFile_NoVersionCheck(s, filePath, content) ==
  LET Loaded(r) ==
        IF r.threw THEN [result |-> FALSE, state |-> r.state]
        ELSE [result |-> TRUE, state |-> [r.state EXCEPT !.currentFilePath = filePath]]
  IN IF ~content.readable \/ ~content.json THEN [result |-> FALSE, state |-> s]
     ELSE Loaded(loadFromFileData(s, content.data))

\* content is what is at filePath: [readable, json, data]; [result, state]
loadFile(s, filePath, content) ==
  LET Loaded(r) ==
        IF r.threw THEN [result |-> FALSE, state |-> r.state]
        ELSE [result |-> TRUE, state |-> [r.state EXCEPT !.currentFilePath = filePath]]
  IN IF ~content.readable \/ ~content.json THEN [result |-> FALSE, state |-> s]
     ELSE IF content.data.version # 1 THEN [result |-> FALSE, state |-> s]
     ELSE Loaded(loadFromFileData(s, content.data))

\* writeOk: whether fs.writeFileSync returns or throws
doSaveFile(s, filename, writeOk) ==
  IF writeOk
  THEN [s EXCEPT !.currentFilePath = filename, !.saveStatusMessage = "Saved"]
  ELSE [s EXCEPT !.saveStatusMessage = "Save failed"]

DefaultFileName == <<"d", "e", "s", "i", "g", "n", ".", "t", "i", "g", "m", "a">>
NoPath == <<>>

saveFile(s, writeOk) ==
  IF s.currentFilePath # NoPath THEN doSaveFile(s, s.currentFilePath, writeOk)
  ELSE [s EXCEPT !.showSavePrompt = TRUE, !.savePromptInput = DefaultFileName]

closeSavePrompt(s) == [s EXCEPT !.showSavePrompt = FALSE, !.savePromptInput = <<>>]

\* String.prototype.trim on a sequence of characters
RECURSIVE TrimLeft(_)
TrimLeft(str) == IF str # <<>> /\ Head(str) = " " THEN TrimLeft(Tail(str)) ELSE str
RECURSIVE TrimRight(_)
TrimRight(str) ==
  IF str # <<>> /\ str[Len(str)] = " " THEN TrimRight(SubSeq(str, 1, Len(str) - 1)) ELSE str
Trim(str) == TrimRight(TrimLeft(str))

----------------------------------------------------------------------------
(* Keys.  A key event is [name, sequence, ctrl, meta]; a sequence of one    *)
(* character is written as that character, a control character as its code. *)

\* the sequences of length 1 and their character codes
CharCode ==
  [c \in {"a", "m", "t", "r", "l", " "} |->
     CASE c = "a" -> 97 [] c = "m" -> 109 [] c = "t" -> 116
       [] c = "r" -> 114 [] c = "l" -> 108 [] c = " " -> 32]
ControlChars == {"x02", "x03", "x0d", "x13", "x15", "x1a", "x1b", "x1d", "x7f"}
IsOneChar(sequence) == sequence \in DOMAIN CharCode \/ sequence \in ControlChars
IsPrintable(sequence) ==
  sequence \in DOMAIN CharCode /\ CharCode[sequence] >= 32 /\ CharCode[sequence] <= 126

\* [consumed, state]
handleSavePromptKey(s, key, writeOk) ==
  IF ~s.showSavePrompt THEN [consumed |-> FALSE, state |-> s]
  ELSE IF key.name = "c" /\ key.ctrl THEN [consumed |-> FALSE, state |-> s]
  ELSE IF key.name = "escape" THEN [consumed |-> TRUE, state |-> closeSavePrompt(s)]
  ELSE IF key.name = "return"
  THEN LET trimmed == Trim(s.savePromptInput)
           filename == IF trimmed = <<>> THEN DefaultFileName ELSE trimmed
       IN [consumed |-> TRUE, state |-> doSaveFile(closeSavePrompt(s), filename, writeOk)]
  ELSE IF key.name = "backspace"
  THEN [consumed |-> TRUE,
        state |-> IF Len(s.savePromptInput) > 0
                  THEN [s EXCEPT !.savePromptInput = SubSeq(@, 1, Len(@) - 1)]
                  ELSE s]
  ELSE IF IsOneChar(key.sequence) /\ ~key.ctrl /\ ~key.meta
  THEN [consumed |-> TRUE, state |-> [s EXCEPT !.savePromptInput = Append(@, key.sequence)]]
  ELSE [consumed |-> TRUE, state |-> s]

\* Array.prototype.splice(start, deleteCount, ...items)
Splice(arr, start, deleteCount, items) ==
  LET n == Len(arr)
      from == IF start < 0 THEN Max(n + start, 0) ELSE Min(start, n)
      cnt == Max(0, Min(deleteCount, n - from))
  IN SubSeq(arr, 1, from) \o items \o SubSeq(arr, from + cnt + 1, n)

handleTextInput(s, key) ==
  LET Backspace(t, i) ==
        [t EXCEPT !.textBoxes[i].chars = Splice(@, t.textCursorPos - 1, 1, <<>>),
                  !.textCursorPos = @ - 1]
      Delete(t, i) ==
        [t EXCEPT !.textBoxes[i].chars = Splice(@, t.textCursorPos, 1, <<>>)]
      Insert(t, i) ==
        [t EXCEPT !.textBoxes[i].chars =
                    Splice(@, t.textCursorPos, 0,
                           << [char |-> key.sequence, bold |-> t.boldMode,
                               color |-> t.currentStrokeColor] >>),
                  !.textCursorPos = @ + 1]
      Edit(r, i) ==
        IF key.name = "left"
        THEN IF r.textCursorPos > 0 THEN [r EXCEPT !.textCursorPos = @ - 1] ELSE r
        ELSE IF key.name = "right"
        THEN IF r.textCursorPos < Len(r.textBoxes[i].chars)
             THEN [r EXCEPT !.textCursorPos = @ + 1] ELSE r
        ELSE IF key.name = "home" THEN [r EXCEPT !.textCursorPos = 0]
        ELSE IF key.name = "end" THEN [r EXCEPT !.textCursorPos = Len(r.textBoxes[i].chars)]
        ELSE IF key.name = "backspace"
        THEN IF r.textCursorPos > 0 THEN Backspace(saveSnapshot(r), i) ELSE r
        ELSE IF key.name = "delete"
        THEN IF r.textCursorPos < Len(r.textBoxes[i].chars)
             THEN Delete(saveSnapshot(r), i) ELSE r
        ELSE IF IsOneChar(key.sequence) /\ ~key.ctrl /\ ~key.meta /\ IsPrintable(key.sequence)
        THEN Insert(saveSnapshot(r), i)
        ELSE r
      Find(i) == IF i = 0 THEN s ELSE Edit(resetCursorBlink(s), i)
  IN IF key.name = "b" /\ key.ctrl /\ ~key.meta THEN toggleBold(s)
     ELSE Find(FindIndex(s.textBoxes, s.activeTextBoxId))

\* the delete/backspace branch of the keypress handler
\* leaves the selected lines in place
deleteSelectedOrHovered_KeepLines(s) ==
  LET Remove(t) ==
        clearSelection(
          [t EXCEPT
             !.textBoxes = FilterSeq(@, LAMBDA b : ~SetHas(t.selectedTextBoxIds, b.id)),
             !.rectangles = FilterSeq(@, LAMBDA r : ~SetHas(t.selectedRectIds, r.id))])
  IN IF hasSelection(s) THEN Remove(saveSnapshot(s))
     ELSE IF s.hoveredTextBoxId # nullId THEN deleteTextBox(s, s.hoveredTextBoxId)
     ELSE IF s.hoveredRectId # nullId THEN deleteRect(s, s.hoveredRectId)
     ELSE IF s.hoveredLineId # nullId THEN deleteLine(s, s.hoveredLineId)
     ELSE s

deleteSelectedOrHovered(s) ==
  LET Remove(t) ==
        clearSelection(
          [t EXCEPT
             !.textBoxes = FilterSeq(@, LAMBDA b : ~SetHas(t.selectedTextBoxIds, b.id)),
             !.rectangles = FilterSeq(@, LAMBDA r : ~SetHas(t.selectedRectIds, r.id)),
             !.lines = FilterSeq(@, LAMBDA l : ~SetHas(t.selectedLineIds, l.id))])
  IN IF hasSelection(s) THEN Remove(saveSnapshot(s))
     ELSE IF s.hoveredTextBoxId # nullId THEN deleteTextBox(s, s.hoveredTextBoxId)
     ELSE IF s.hoveredRectId # nullId THEN deleteRect(s, s.hoveredRectId)
     ELSE IF s.hoveredLineId # nullId THEN deleteLine(s, s.hoveredLineId)
     ELSE s

\* the escape key leaves a pending line as it is
cancelDrawing_RectOnly(s) ==
  IF s.isDrawingRect THEN [s EXCEPT !.isDrawingRect = FALSE] ELSE s

\* the escape key outside text editing: the shape being drawn is dropped
cancelDrawing(s) ==
  IF s.isDrawingRect THEN [s EXCEPT !.isDrawingRect = FALSE]
  ELSE IF s.isDrawingLine THEN [s EXCEPT !.isDrawingLine = FALSE]
  ELSE s

\* the listener with the tool keys tested before the text edit
handleKeypress_ToolKeysFirst(s, key, writeOk) ==
  LET Rest(p) ==
     IF p.consumed THEN p.state
     ELSE IF /\ ~s.isDrawingRect /\ ~s.isDrawingLine /\ ~s.isDraggingMouse
             /\ key.sequence \in {"m", "t", "r", "l"}
     THEN setTool(s, CASE key.sequence = "m" -> "move"
                       [] key.sequence = "t" -> "text"
                       [] key.sequence = "r" -> "rectangle"
                       [] key.sequence = "l" -> "line")
     ELSE IF s.activeTextBoxId # nullId
     THEN IF key.name = "c" /\ key.ctrl THEN s
          ELSE IF key.name = "escape" THEN setTool(commitActiveTextBox(s), "move")
          ELSE handleTextInput(s, key)
     ELSE IF key.name = "s" /\ key.ctrl /\ ~key.meta THEN saveFile(s, writeOk)
     ELSE IF key.name = "z" /\ key.ctrl /\ ~key.meta THEN undo(s)
     ELSE IF key.name = "u" /\ key.ctrl /\ ~key.meta THEN redo(s)
     ELSE IF (key.name = "[" /\ key.ctrl) \/ (key.sequence = "x1b" /\ key.name = "")
     THEN moveLayerDown(s)
     ELSE IF (key.name = "]" /\ key.ctrl) \/ key.sequence = "x1d"
     THEN moveLayerUp(s)
     ELSE IF key.name = "escape" THEN cancelDrawing(s)
     ELSE IF key.name \in {"delete", "backspace"} THEN deleteSelectedOrHovered(s)
     ELSE s
  IN Rest(handleSavePromptKey(s, key, writeOk))

\* the "keypress" listener of setupInput
handleKeypress(s, key, writeOk) ==
  LET Rest(p) ==
     IF p.consumed THEN p.state
     ELSE IF s.activeTextBoxId # nullId
     THEN IF key.name = "c" /\ key.ctrl THEN s
          ELSE IF key.name = "escape" THEN setTool(commitActiveTextBox(s), "move")
          ELSE handleTextInput(s, key)
     ELSE IF /\ ~s.isDrawingRect /\ ~s.isDrawingLine /\ ~s.isDraggingMouse
             /\ key.sequence \in {"m", "t", "r", "l"}
     THEN setTool(s, CASE key.sequence = "m" -> "move"
                       [] key.sequence = "t" -> "text"
                       [] key.sequence = "r" -> "rectangle"
                       [] key.sequence = "l" -> "line")
     ELSE IF key.name = "s" /\ key.ctrl /\ ~key.meta THEN saveFile(s, writeOk)
     ELSE IF key.name = "z" /\ key.ctrl /\ ~key.meta THEN undo(s)
     ELSE IF key.name = "u" /\ key.ctrl /\ ~key.meta THEN redo(s)
     ELSE IF (key.name = "[" /\ key.ctrl) \/ (key.sequence = "x1b" /\ key.name = "")
     THEN moveLayerDown(s)
     ELSE IF (key.name = "]" /\ key.ctrl) \/ key.sequence = "x1d"
     THEN moveLayerUp(s)
     ELSE IF key.name = "escape" THEN cancelDrawing(s)
     ELSE IF key.name \in {"delete", "backspace"} THEN deleteSelectedOrHovered(s)
     ELSE s
  IN Rest(handleSavePromptKey(s, key, writeOk))

----------------------------------------------------------------------------
(* The program and its environment                                          *)

\* the document: what a snapshot and a file hold
Doc(s) ==
  [ textBoxes     |-> s.textBoxes,
    rectangles    |-> s.rectangles,
    lines         |-> s.lines,
    nextTextBoxId |-> s.nextTextBoxId,
    nextRectId    |-> s.nextRectId,
    nextLineId    |-> s.nextLineId,
    nextZIndex    |-> s.nextZIndex ]

\* the fields of a CanvasApp after its constructor
EmptyApp ==
  [ boldMode |-> FALSE,
    currentFilePath |-> NoPath,
    saveStatusMessage |-> "",
    isSelecting |-> FALSE,
    isSelectionPending |-> FALSE,
    showSavePrompt |-> FALSE,
    savePromptInput |-> <<>>,
    gridWidth |-> GridWidth,
    gridHeight |-> GridHeight,
    textBoxes |-> <<>>,
    nextTextBoxId |-> 1,
    rectangles |-> <<>>,
    nextRectId |-> 1,
    lines |-> <<>>,
    nextLineId |-> 1,
    nextZIndex |-> 1,
    currentTool |-> "move",
    isDrawingRect |-> FALSE,
    isDrawingLine |-> FALSE,
    drawStartX |-> 0,
    drawStartY |-> 0,
    drawCursorX |-> 0,
    drawCursorY |-> 0,
    isDraggingMouse |-> FALSE,
    activeTextBoxId |-> nullId,
    textCursorPos |-> 0,
    cursorBlinkVisible |-> TRUE,
    hoveredTextBoxId |-> nullId,
    hoveredRectId |-> nullId,
    hoveredLineId |-> nullId,
    selectedTextBoxIds |-> <<>>,
    selectedRectIds |-> <<>>,
    selectedLineIds |-> <<>>,
    isDraggingSelection |-> FALSE,
    dragStartX |-> 0,
    dragStartY |-> 0,
    isResizingRect |-> FALSE,
    resizeHandle |-> "null",
    mouseDownX |-> 0,
    mouseDownY |-> 0,
    hasDragged |-> FALSE,
    clickedOnSelectedTextBox |-> FALSE,
    historyStack |-> <<>>,
    redoStack |-> <<>>,
    currentStrokeColor |-> RGBA_fromInts(255, 255, 255, 255),
    currentFillColor |-> null,
    currentStrokeColorIndex |-> 2,
    currentFillColorIndex |-> 0 ]

MouseEvent(type, x, y, shift) == [type |-> type, x |-> x, y |-> y, shift |-> shift]
KeyEvent(name, sequence, ctrl) ==
  [name |-> name, sequence |-> sequence, ctrl |-> ctrl, meta |-> FALSE]

KeyM == KeyEvent("m", "m", FALSE)
KeyT == KeyEvent("t", "t", FALSE)
KeyR == KeyEvent("r", "r", FALSE)
KeyL == KeyEvent("l", "l", FALSE)
KeyA == KeyEvent("a", "a", FALSE)
CtrlS == KeyEvent("s", "x13", TRUE)
CtrlZ == KeyEvent("z", "x1a", TRUE)
CtrlU == KeyEvent("u", "x15", TRUE)
CtrlB == KeyEvent("b", "x02", TRUE)
CtrlLeftBracket == KeyEvent("[", "x1b[91;5u", TRUE)
CtrlRightBracket == KeyEvent("]", "x1b[93;5u", TRUE)
KeyEscape == KeyEvent("escape", "x1b", FALSE)
KeyDelete == KeyEvent("delete", "x1b[3~", FALSE)
KeyBackspace == KeyEvent("backspace", "x7f", FALSE)
KeyLeft == KeyEvent("left", "x1b[D", FALSE)
KeyRight == KeyEvent("right", "x1b[C", FALSE)
KeyHome == KeyEvent("home", "x1b[H", FALSE)
KeyEnd == KeyEvent("end", "x1b[F", FALSE)
KeyReturn == KeyEvent("return", "x0d", FALSE)

Keys ==
  { KeyM, KeyT, KeyR, KeyL, KeyA, CtrlS, CtrlZ, CtrlU, CtrlB, CtrlLeftBracket,
    CtrlRightBracket, KeyEscape, KeyDelete, KeyBackspace, KeyLeft, KeyRight,
    KeyHome, KeyEnd, KeyReturn }

\* where the pointer goes: the canvas cells of columns 0..MaxX (the lowest
\* canvas row holds the stroke palette there), one fill palette cell and one
\* cell of the toolbar row
FillCell == <<fillColorsStart(EmptyApp) + 1, GridHeight - 1>>
ToolbarCell == <<0, GridHeight>>
Cells == ((0..MaxX) \X (0..(GridHeight - 1))) \cup {FillCell, ToolbarCell}


----------------------------------------------------------------------------
(* History variables.  gpre is the stack of the documents before the        *)
(* mutating gestures made since it was last emptied: an entry holds the     *)
(* document before the gesture (lit) and that document less the empty text  *)
(* run whose edit the gesture's pointer-down ends (snap).  gpre is emptied  *)
(* by what is no mutating gesture but takes a snapshot (a click that moves  *)
(* nothing, a delete key on a hover id of no entity), by redo, by loadFile, *)
(* and by a key that acts while the mouse button is down.                   *)

PreDoc(s, s2) ==
  [ lit  |-> Doc(s),
    snap |-> IF s.activeTextBoxId # nullId /\ s2.activeTextBoxId # s.activeTextBoxId
             THEN Doc(commitActiveTextBox(s))
             ELSE Doc(s) ]

PushPre(g, entry) ==
  LET pushed == Append(g, entry)
  IN IF Len(pushed) > MAX_HISTORY THEN Tail(pushed) ELSE pushed

\* the edit of an empty run ended and the run was dropped: nothing else changed
IsSilentRemoval(s, s2) ==
  /\ s.activeTextBoxId # nullId
  /\ s2.activeTextBoxId # s.activeTextBoxId
  /\ Doc(s2) = Doc(commitActiveTextBox(s))

Ghost(g, pend, n) == [gpre |-> g, gpend |-> pend, gundo |-> n]

GhostAfterMouse(w, event, s2) ==
  LET s == w.app
      pushed == s2.historyStack # s.historyStack
      changed == Doc(s2) # Doc(s)
      unsnapshotted == changed /\ ~IsSilentRemoval(s, s2)
      n == IF pushed \/ changed THEN 0 ELSE w.gundo
  IN IF event.type = "down"
     THEN IF pushed
          THEN Ghost(PushPre(w.gpre, PreDoc(s, s2)),
                     IF s2.isDraggingSelection \/ s2.isResizingRect THEN "pending" ELSE "done",
                     0)
          ELSE IF unsnapshotted THEN Ghost(PushPre(w.gpre, PreDoc(s, s)), "done", 0)
          ELSE Ghost(w.gpre, "none", n)
     ELSE IF event.type = "drag"
     THEN IF ~changed \/ w.gpend \in {"done", "void"} THEN Ghost(w.gpre, w.gpend, n)
          ELSE IF w.gpend = "pending" THEN Ghost(w.gpre, "done", 0)
          ELSE Ghost(PushPre(w.gpre, PreDoc(s, s)), "done", 0)
     ELSE IF event.type \in {"up", "drag-end"}
     THEN IF w.gpend = "void" THEN Ghost(<<>>, "none", 0)
          ELSE IF pushed THEN Ghost(PushPre(w.gpre, PreDoc(s, s2)), "none", 0)
          ELSE IF w.gpend = "pending" THEN Ghost(<<>>, "none", 0)
          ELSE IF unsnapshotted THEN Ghost(PushPre(w.gpre, PreDoc(s, s)), "none", 0)
          ELSE Ghost(w.gpre, "none", n)
     ELSE Ghost(w.gpre, w.gpend, w.gundo)

IsUndoCall(s, key, s2) ==
  key.name = "z" /\ key.ctrl /\ s.historyStack # <<>> /\ s2 = undo(s)
IsRedoCall(s, key, s2) ==
  key.name = "u" /\ key.ctrl /\ s.redoStack # <<>> /\ s2 = redo(s)

GhostAfterKey(w, key, s2) ==
  LET s == w.app
      pushed == s2.historyStack # s.historyStack
      changed == Doc(s2) # Doc(s)
  IN IF IsUndoCall(s, key, s2)
     THEN IF w.button THEN Ghost(<<>>, "void", 0)
          ELSE IF w.gpre = <<>> THEN Ghost(<<>>, "none", 0)
          ELSE Ghost(SubSeq(w.gpre, 1, Len(w.gpre) - 1), "none", w.gundo + 1)
     ELSE IF IsRedoCall(s, key, s2)
     THEN Ghost(<<>>, IF w.button THEN "void" ELSE "none", 0)
     ELSE IF w.button /\ (pushed \/ changed) THEN Ghost(<<>>, "void", 0)
     ELSE IF pushed /\ changed THEN Ghost(PushPre(w.gpre, PreDoc(s, s2)), w.gpend, 0)
     ELSE IF pushed THEN Ghost(<<>>, w.gpend, 0)
     ELSE IF changed
     THEN IF IsSilentRemoval(s, s2) THEN Ghost(w.gpre, w.gpend, 0)
          ELSE Ghost(PushPre(w.gpre, PreDoc(s, s)), w.gpend, 0)
     ELSE Ghost(w.gpre, w.gpend, w.gundo)

\* the program with its environment's history: a world
World(s, b, l, g) ==
  [ app |-> s, button |-> b, loadFileResult |-> l,
    gpre |-> g.gpre, gpend |-> g.gpend, gundo |-> g.gundo ]

\* the terminal delivers a pointer event to canvas.onMouse
DeliverMouse(w, event) ==
  LET After(s2) ==
        World(s2,
              IF event.type = "down" THEN TRUE
              ELSE IF event.type \in {"up", "drag-end"} THEN FALSE
              ELSE w.button,
              w.loadFileResult,
              GhostAfterMouse(w, event, s2))
  IN After(handleMouse(w.app, event))

\* the terminal delivers a key to the keypress listener
DeliverKey(w, key, writeOk) ==
  LET After(s2) == World(s2, w.button, w.loadFileResult, GhostAfterKey(w, key, s2))
  IN After(handleKeypress(w.app, key, writeOk))

\* main() calls loadFile on the file named on the command line
DeliverLoad(w, file, content) ==
  LET After(r) ==
        World(r.state, w.button,
              [calls |-> w.loadFileResult.calls + 1, file |-> file, result |-> r.result],
              Ghost(<<>>, IF w.button THEN "void" ELSE "none", 0))
  IN After(loadFile(w.app, <<file>>, content))

\* a script is a sequence of pointer events (with a type) and keys (with a name)
RECURSIVE RunScript(_, _)
RunScript(w, script) ==
  IF script = <<>> THEN w
  ELSE LET e == Head(script)
       IN RunScript(IF "type" \in DOMAIN e THEN DeliverMouse(w, e)
                    ELSE DeliverKey(w, e, TRUE),
                    Tail(script))

World0 ==
  World(EmptyApp, FALSE, [calls |-> 0, file |-> "none", result |-> FALSE],
        Ghost(<<>>, "none", 0))

Down(x, y) == MouseEvent("down", x, y, FALSE)
Drag(x, y) == MouseEvent("drag", x, y, FALSE)
Up(x, y) == MouseEvent("up", x, y, FALSE)
Move(x, y) == MouseEvent("move", x, y, FALSE)

\* a rectangle on (0,0)-(1,1) and a line from (2,0) to (2,1)
ScriptShapes ==
  << KeyR, Down(0, 0), Drag(1, 1), Up(1, 1),
     KeyL, Down(2, 0), Drag(2, 1), Up(2, 1) >>
\* ... and the text run "a" at (1,0)
ScriptText == ScriptShapes \o << KeyT, Down(1, 0), Up(1, 0), KeyA, KeyEscape >>
\* ... selected by a click
ScriptSelected == ScriptText \o << Down(1, 0), Up(1, 0) >>
\* the shapes and an empty text run at (1,1) under edit
ScriptEditing == ScriptShapes \o << KeyT, Down(1, 1), Up(1, 1) >>
\* ... and the mouse button pressed on the rectangle
ScriptEditingDown == ScriptEditing \o << Down(0, 0) >>

\* the text run typed and emptied again, its edit ended
ScriptBackspaced ==
  ScriptShapes \o << KeyT, Down(1, 0), Up(1, 0), KeyA, KeyBackspace, KeyEscape >>
\* the shapes, the line (selected since it was drawn) dragged one column left
ScriptMoved == ScriptShapes \o << Down(2, 0), Drag(1, 0), Up(1, 0) >>
\* the shapes, the rectangle selected by a click and resized by its se handle
ScriptResized ==
  ScriptShapes \o << Down(0, 0), Up(0, 0), Down(1, 1), Drag(2, 1), Up(2, 1) >>

\* the shapes and a second rectangle, a second line being drawn
ScriptDrawingRect == ScriptShapes \o << KeyR, Down(1, 0) >>
ScriptDrawingLine == ScriptShapes \o << KeyL, Down(0, 1) >>

Seeds ==
  { <<>>, ScriptShapes, ScriptText, ScriptSelected, ScriptEditing, ScriptEditingDown,
    ScriptBackspaced, ScriptMoved, ScriptResized, ScriptDrawingRect, ScriptDrawingLine }


----------------------------------------------------------------------------
(* Specification: pointer and key events, from the empty document and from  *)
(* states that scripts of events reach from it                              *)

\* the specifications of events work on values: no object is allocated
NoMem == [ arrays |-> <<>>, records |-> <<>>, charArrays |-> <<>>, chars |-> <<>> ]

IsWorld(w) ==
  /\ app = w.app
  /\ button = w.button
  /\ loadFileResult = w.loadFileResult
  /\ gpre = w.gpre
  /\ gpend = w.gpend
  /\ gundo = w.gundo
  /\ mem = NoMem

BecomesWorld(w) ==
  /\ app' = w.app
  /\ button' = w.button
  /\ loadFileResult' = w.loadFileResult
  /\ gpre' = w.gpre
  /\ gpend' = w.gpend
  /\ gundo' = w.gundo
  /\ mem' = mem

Now == World(app, button, loadFileResult, Ghost(gpre, gpend, gundo))

Init ==
  /\ \E script \in Seeds : IsWorld(RunScript(World0, script))
  /\ steps = 0

\* the terminal reports down, then drags, then up; moves while no button is down
MouseTypes == IF button THEN {"drag", "up", "drag-end"} ELSE {"move", "down"}

Mouse ==
  /\ steps < MaxSteps
  /\ \E type \in MouseTypes, cell \in Cells, shift \in BOOLEAN :
       /\ shift => type = "down"
       /\ BecomesWorld(DeliverMouse(Now, MouseEvent(type, cell[1], cell[2], shift)))
  /\ steps' = steps + 1

Key ==
  /\ steps < MaxSteps
  /\ \E key \in Keys, writeOk \in BOOLEAN :
       BecomesWorld(DeliverKey(Now, key, writeOk))
  /\ steps' = steps + 1

Next == Mouse \/ Key

Spec == Init /\ [][Next]_vars

----------------------------------------------------------------------------
(* Specification: the same events and loadFile calls                        *)

\* calls of loadFile
MaxLoads == 2

SerializedWhite == serializeColor(RGBA_fromInts(255, 255, 255, 255))

FileTextBoxes ==
  JArray(<< [ id |-> 1, x |-> 0, y |-> 0,
              chars |-> << [char |-> "a", bold |-> FALSE, color |-> SerializedWhite] >>,
              zIndex |-> 1, strokeColor |-> SerializedWhite, fillColor |-> null ] >>)
FileRectangles ==
  JArray(<< [ id |-> 1, x1 |-> 0, y1 |-> 0, x2 |-> 2, y2 |-> 1, bold |-> FALSE,
              zIndex |-> 2, strokeColor |-> SerializedWhite, fillColor |-> null ] >>)
FileLines ==
  JArray(<< [ id |-> 1, x1 |-> 0, y1 |-> 1, x2 |-> 2, y2 |-> 1, bold |-> TRUE,
              zIndex |-> 3, strokeColor |-> null, fillColor |-> null ] >>)

FileData(version, textBoxes, rectangles, lines) ==
  [ version |-> version, textBoxes |-> textBoxes, rectangles |-> rectangles,
    lines |-> lines, nextTextBoxId |-> 2, nextRectId |-> 2, nextLineId |-> 2,
    nextZIndex |-> 4 ]

ValidData == FileData(1, FileTextBoxes, FileRectangles, FileLines)

\* the files the command line may name
FileNames == {"missing", "garbage", "v2", "noTextBoxes", "noRectangles", "noLines", "valid"}
BadVersionFiles == {"v2"}
MalformedFiles == {"noTextBoxes", "noRectangles", "noLines"}

FileContent(file) ==
  [ readable |-> file # "missing",
    json     |-> file \notin {"missing", "garbage"},
    data     |-> CASE file = "v2" -> FileData(2, FileTextBoxes, FileRectangles, FileLines)
                   [] file = "noTextBoxes" -> FileData(1, JMissing, FileRectangles, FileLines)
                   [] file = "noRectangles" -> FileData(1, FileTextBoxes, JMissing, FileLines)
                   [] file = "noLines" -> FileData(1, FileTextBoxes, FileRectangles, JMissing)
                   [] OTHER -> ValidData ]

LoadFile ==
  /\ loadFileResult.calls < MaxLoads
  /\ \E file \in FileNames : BecomesWorld(DeliverLoad(Now, file, FileContent(file)))
  /\ UNCHANGED steps

LoadMouse ==
  /\ steps < MaxLoadSteps
  /\ \E type \in MouseTypes, cell \in Cells, shift \in BOOLEAN :
       /\ shift => type = "down"
       /\ BecomesWorld(DeliverMouse(Now, MouseEvent(type, cell[1], cell[2], shift)))
  /\ steps' = steps + 1

LoadKey ==
  /\ steps < MaxLoadSteps
  /\ \E key \in Keys, writeOk \in BOOLEAN : BecomesWorld(DeliverKey(Now, key, writeOk))
  /\ steps' = steps + 1

NextLoad == LoadFile \/ LoadMouse \/ LoadKey

SpecLoad == Init /\ [][NextLoad]_vars

----------------------------------------------------------------------------
(* Specification: documents saved and loaded back                           *)

Red == RGBA_fromInts(255, 100, 100, 255)
Black == RGBA_fromInts(0, 0, 0, 255)

CodecEmptyRun ==
  [ id |-> 1, x |-> 0, y |-> 0, chars |-> <<>>, zIndex |-> 1,
    strokeColor |-> Red, fillColor |-> null ]
CodecRun ==
  [ id |-> 2, x |-> 1, y |-> 1,
    chars |-> << [char |-> "a", bold |-> TRUE, color |-> Red],
                 [char |-> "m", bold |-> FALSE, color |-> null] >>,
    zIndex |-> 2, strokeColor |-> null, fillColor |-> Black ]
CodecRect(id, strokeColor, fillColor) ==
  [ id |-> id, x1 |-> 0, y1 |-> 0, x2 |-> id, y2 |-> 1, bold |-> id = 2,
    zIndex |-> 2 + id, strokeColor |-> strokeColor, fillColor |-> fillColor ]
CodecLine(id, x2, y2, strokeColor) ==
  [ id |-> id, x1 |-> 2, y1 |-> 0, x2 |-> x2, y2 |-> y2, bold |-> FALSE,
    zIndex |-> 4 + id, strokeColor |-> strokeColor, fillColor |-> null ]

\* greatest value of the z counter of the documents
MaxCodecZ == 8

CodecDocs ==
  { [ textBoxes |-> tb, rectangles |-> rs, lines |-> ls,
      nextTextBoxId |-> 3, nextRectId |-> 3, nextLineId |-> 3, nextZIndex |-> z ] :
      tb \in { <<>>, <<CodecEmptyRun>>, <<CodecRun>>,
               <<CodecEmptyRun, CodecRun>>, <<CodecRun, CodecEmptyRun>> },
      rs \in { <<>>, <<CodecRect(1, null, null)>>, <<CodecRect(2, Red, Black)>>,
               <<CodecRect(1, null, null), CodecRect(2, Red, Black)>> },
      ls \in { <<>>, <<CodecLine(1, 2, 0, Red)>>, <<CodecLine(2, 0, 1, null)>>,
               <<CodecLine(1, 2, 0, Red), CodecLine(2, 0, 1, null)>> },
      z \in 7..MaxCodecZ }

WithDoc(s, doc) ==
  [s EXCEPT !.textBoxes = doc.textBoxes, !.rectangles = doc.rectangles,
            !.lines = doc.lines, !.nextTextBoxId = doc.nextTextBoxId,
            !.nextRectId = doc.nextRectId, !.nextLineId = doc.nextLineId,
            !.nextZIndex = doc.nextZIndex]

\* what doSaveFile writes: JSON.stringify(toFileData())
SavedFile(s) == [readable |-> TRUE, json |-> TRUE, data |-> toFileData(s)]

InitCodec ==
  /\ \E doc \in CodecDocs :
       IsWorld([World0 EXCEPT !.app = WithDoc(EmptyApp, doc)])
  /\ steps = 0

SaveAndLoad ==
  /\ loadFileResult.calls < 1
  /\ BecomesWorld(DeliverLoad(Now, "saved", SavedFile(app)))
  /\ UNCHANGED steps

NextCodec == SaveAndLoad

SpecCodec == InitCodec /\ [][NextCodec]_vars

----------------------------------------------------------------------------
(* Specification: events on a document whose undo stack is nearly full      *)

\* two rectangles, the second one selected
ScriptTwoRects ==
  << KeyR, Down(0, 0), Drag(1, 0), Up(1, 0), KeyR, Down(0, 1), Drag(1, 1), Up(1, 1) >>

\* the layer swaps that fill the undo stack: down, up, down, ...
SwapKey(n) == IF n % 2 = 1 THEN CtrlLeftBracket ELSE CtrlRightBracket

\* the two draws, then the swaps
ReplayEvent(n) ==
  IF n <= Len(ScriptTwoRects) THEN ScriptTwoRects[n] ELSE SwapKey(n - Len(ScriptTwoRects))

\* after the two draws and so many swaps the undo stack lacks one snapshot
ReplaySteps == Len(ScriptTwoRects) + MAX_HISTORY - 3

DeepKeys == {CtrlLeftBracket, CtrlRightBracket, CtrlZ, CtrlU, KeyDelete}
DeepCells == {<<0, 0>>, <<0, 1>>}

InitDeep ==
  /\ IsWorld(World0)
  /\ steps = 0

DeepReplay ==
  /\ steps < ReplaySteps
  /\ BecomesWorld(RunScript(Now, << ReplayEvent(steps + 1) >>))
  /\ steps' = steps + 1

DeepMouse ==
  /\ steps >= ReplaySteps
  /\ steps < ReplaySteps + MaxDeepSteps
  /\ \E type \in MouseTypes, cell \in DeepCells :
       BecomesWorld(DeliverMouse(Now, MouseEvent(type, cell[1], cell[2], FALSE)))
  /\ steps' = steps + 1

DeepKey ==
  /\ steps >= ReplaySteps
  /\ steps < ReplaySteps + MaxDeepSteps
  /\ \E key \in DeepKeys : BecomesWorld(DeliverKey(Now, key, TRUE))
  /\ steps' = steps + 1

NextDeep == DeepReplay \/ DeepMouse \/ DeepKey

SpecDeep == InitDeep /\ [][NextDeep]_vars

----------------------------------------------------------------------------
(* Specification: clicks on a document with one rectangle                   *)

\* greatest coordinates of the rectangle's corners
MaxCornerX == 3
MaxCornerY == 2
\* pointer events
MaxHitSteps == 3

White == RGBA_fromInts(255, 255, 255, 255)

HitRects ==
  { [ id |-> 1, x1 |-> x1, y1 |-> y1, x2 |-> x2, y2 |-> y2, bold |-> FALSE,
      zIndex |-> 1, strokeColor |-> White, fillColor |-> fillColor ] :
      x1 \in 0..MaxCornerX, x2 \in 0..MaxCornerX,
      y1 \in 0..MaxCornerY, y2 \in 0..MaxCornerY,
      fillColor \in {null, Black} }

HitLine ==
  [ id |-> 1, x1 |-> 1, y1 |-> 1, x2 |-> 2, y2 |-> 1, bold |-> FALSE,
    zIndex |-> 2, strokeColor |-> White, fillColor |-> null ]

\* the documents a file given on the command line may hold
HitDocs ==
  { [ textBoxes |-> <<>>, rectangles |-> <<rect>>, lines |-> ls,
      nextTextBoxId |-> 1, nextRectId |-> 2, nextLineId |-> 2, nextZIndex |-> 3 ] :
      rect \in HitRects, ls \in { <<>>, <<HitLine>> } }

\* the rows above the palette row
HitCells == (0..MaxCornerX) \X (0..(GridHeight - 2))

InitHit ==
  /\ \E doc \in HitDocs : IsWorld([World0 EXCEPT !.app = WithDoc(EmptyApp, doc)])
  /\ steps = 0

HitMouse ==
  /\ steps < MaxHitSteps
  /\ \E cell \in HitCells :
       BecomesWorld(DeliverMouse(Now, MouseEvent(IF button THEN "up" ELSE "down",
                                                 cell[1], cell[2], FALSE)))
  /\ steps' = steps + 1

NextHit == HitMouse

SpecHit == InitHit /\ [][NextHit]_vars

----------------------------------------------------------------------------
(* Specification: the pointer over a document with one line                 *)

\* greatest coordinates of the line's endpoints
MaxLineX == 3
MaxLineY == 3
\* pointer events
MaxRasterSteps == 1

RasterLines ==
  { [ id |-> 1, x1 |-> x1, y1 |-> y1, x2 |-> x2, y2 |-> y2, bold |-> FALSE,
      zIndex |-> 1, strokeColor |-> White, fillColor |-> null ] :
      x1 \in 0..MaxLineX, x2 \in 0..MaxLineX, y1 \in 0..MaxLineY, y2 \in 0..MaxLineY }

RasterDocs ==
  { [ textBoxes |-> <<>>, rectangles |-> <<>>, lines |-> <<line>>,
      nextTextBoxId |-> 1, nextRectId |-> 1, nextLineId |-> 2, nextZIndex |-> 2 ] :
      line \in RasterLines }

RasterCells == (0..MaxLineX) \X (0..MaxLineY)

\* a terminal with rows for the lines and the palette row
InitRaster ==
  /\ \E doc \in RasterDocs :
       IsWorld([World0 EXCEPT
                  !.app = WithDoc([EmptyApp EXCEPT !.gridHeight = MaxLineY + 2], doc)])
  /\ steps = 0

\* the pointer moves over a cell: updateHover tests the line's cells
RasterMouse ==
  /\ steps < MaxRasterSteps
  /\ \E cell \in RasterCells :
       BecomesWorld(DeliverMouse(Now, MouseEvent("move", cell[1], cell[2], FALSE)))
  /\ steps' = steps + 1

NextRaster == RasterMouse

SpecRaster == InitRaster /\ [][NextRaster]_vars

----------------------------------------------------------------------------
(* Specification: pointer gestures on a loaded document, 6 rows high        *)

\* greatest coordinate of the pointer's cells
MaxBoxCell == 2
\* pointer events
MaxBoxSteps == 3
\* rows of the canvas
BoxGridHeight == 6

BoxRun ==
  [ id |-> 1, x |-> 2, y |-> 0,
    chars |-> << [char |-> "a", bold |-> FALSE, color |-> null],
                 [char |-> "b", bold |-> FALSE, color |-> null] >>,
    zIndex |-> 1, strokeColor |-> White, fillColor |-> null ]
BoxEmptyRun ==
  [ id |-> 2, x |-> 2, y |-> 2, chars |-> <<>>,
    zIndex |-> 2, strokeColor |-> White, fillColor |-> null ]
BoxRects ==
  { [ id |-> 1, x1 |-> 1, y1 |-> 1, x2 |-> 4, y2 |-> 4, bold |-> FALSE,
      zIndex |-> 3, strokeColor |-> White, fillColor |-> null ],
    [ id |-> 1, x1 |-> 4, y1 |-> 4, x2 |-> 1, y2 |-> 1, bold |-> FALSE,
      zIndex |-> 3, strokeColor |-> White, fillColor |-> null ] }
BoxLine ==
  [ id |-> 1, x1 |-> 0, y1 |-> 3, x2 |-> 0, y2 |-> 2, bold |-> FALSE,
    zIndex |-> 4, strokeColor |-> White, fillColor |-> null ]

BoxDocs ==
  { [ textBoxes |-> tb, rectangles |-> <<rect>>, lines |-> ls,
      nextTextBoxId |-> 3, nextRectId |-> 2, nextLineId |-> 2, nextZIndex |-> 5 ] :
      tb \in { <<>>, <<BoxRun>>, <<BoxEmptyRun>>, <<BoxRun, BoxEmptyRun>> },
      rect \in BoxRects,
      ls \in { <<>>, <<BoxLine>> } }

\* nothing selected, or the rectangle selected by a click on its corner
BoxScripts == { <<>>, << Down(1, 1), Up(1, 1) >> }

BoxCells == (0..MaxBoxCell) \X (0..MaxBoxCell)

InitBox ==
  /\ \E doc \in BoxDocs, script \in BoxScripts :
       IsWorld(RunScript(
                 [World0 EXCEPT
                    !.app = WithDoc([EmptyApp EXCEPT !.gridHeight = BoxGridHeight], doc)],
                 script))
  /\ steps = 0

BoxMouse ==
  /\ steps < MaxBoxSteps
  /\ \E type \in (IF button THEN {"drag", "up"} ELSE {"down"}),
        cell \in BoxCells, shift \in BOOLEAN :
       /\ shift => type = "down"
       /\ BecomesWorld(DeliverMouse(Now, MouseEvent(type, cell[1], cell[2], shift)))
  /\ steps' = steps + 1

NextBox == BoxMouse

SpecBox == InitBox /\ [][NextBox]_vars

----------------------------------------------------------------------------
(* Specification: the document as objects with identity.  An array, an      *)
(* entity record, a character array and a character record each live at an *)
(* address; the fields of CanvasApp and of a HistorySnapshot hold the       *)
(* addresses of arrays.  An assignment to a field of an object changes what *)
(* every holder of its address sees.                                        *)

\* operations applied after the initial state
MaxHeapSteps == 3

\* the entity records an array at address arr holds, in order
RecordsOf(m, arr) == [i \in 1..Len(m.arrays[arr]) |-> m.records[m.arrays[arr][i]]]

\* the character records a character array at address ca holds
CharsOf(m, ca) == [k \in 1..Len(m.charArrays[ca]) |-> m.chars[m.charArrays[ca][k]]]

\* the text runs of the array at arr with their characters read through
RunsOf(m, arr) ==
  [i \in 1..Len(m.arrays[arr]) |->
     [m.records[m.arrays[arr][i]] EXCEPT !.chars = CharsOf(m, @)]]

\* the document a snapshot, or the live fields, d refer to
DocAt(m, d) ==
  [ textBoxes     |-> RunsOf(m, d.textBoxes),
    rectangles    |-> RecordsOf(m, d.rectangles),
    lines         |-> RecordsOf(m, d.lines),
    nextTextBoxId |-> d.nextTextBoxId,
    nextRectId    |-> d.nextRectId,
    nextLineId    |-> d.nextLineId,
    nextZIndex    |-> d.nextZIndex ]

\* this.textBoxes, this.rectangles, this.lines and the counters
Live(m) ==
  [ textBoxes     |-> m.textBoxes,
    rectangles    |-> m.rectangles,
    lines         |-> m.lines,
    nextTextBoxId |-> m.nextTextBoxId,
    nextRectId    |-> m.nextRectId,
    nextLineId    |-> m.nextLineId,
    nextZIndex    |-> m.nextZIndex ]

\* `rects.map(r => ({ ...r }))`: a new record for each record, a new array
CloneShapes(m, arr) ==
  LET n == Len(m.arrays[arr])
      base == Len(m.records)
  IN [ mem |-> [m EXCEPT !.records = @ \o RecordsOf(m, arr),
                         !.arrays = Append(@, [i \in 1..n |-> base + i])],
       ref |-> Len(m.arrays) + 1 ]

\* `boxes.map(b => ({ ...b }))`: the copies keep the character arrays
cloneTextBoxesAt_SharedChars(m, arr) ==
  CloneShapes(m, arr)

\* `boxes.map(b => ({ ...b, chars: b.chars.map(c => ({ ...c })) }))`: a new
\* record for each run, a new character array for each, a new record for
\* each character
cloneTextBoxesAt(m, arr) ==
  LET n == Len(m.arrays[arr])
      Box(i) == m.records[m.arrays[arr][i]]
      \* the characters of the runs before run i
      Before(i) == LET Sum[j \in 0..n] ==
                         IF j = 0 THEN 0 ELSE Sum[j - 1] + Len(m.charArrays[Box(j).chars])
                   IN Sum[i - 1]
      RECURSIVE AllChars(_)
      AllChars(i) == IF i > n THEN <<>> ELSE CharsOf(m, Box(i).chars) \o AllChars(i + 1)
      cbase == Len(m.chars)
      abase == Len(m.charArrays)
      base == Len(m.records)
  IN [ mem |-> [m EXCEPT
                  !.chars = @ \o AllChars(1),
                  !.charArrays = @ \o [i \in 1..n |->
                     [k \in 1..Len(m.charArrays[Box(i).chars]) |-> cbase + Before(i) + k]],
                  !.records = @ \o [i \in 1..n |-> [Box(i) EXCEPT !.chars = abase + i]],
                  !.arrays = Append(@, [i \in 1..n |-> base + i])],
       ref |-> Len(m.arrays) + 1 ]

cloneRectanglesAt(m, arr) == CloneShapes(m, arr)
cloneLinesAt(m, arr) == CloneShapes(m, arr)

\* the HistorySnapshot built by saveSnapshot, undo and redo: the memory after
\* the three clones and the snapshot that refers to them
currentSnapshotAt(m) ==
  LET Lines(r, t, mr) ==
        [ mem |-> mr.mem,
          snapshot |-> [ textBoxes |-> t, rectangles |-> r, lines |-> mr.ref,
                         nextTextBoxId |-> m.nextTextBoxId, nextRectId |-> m.nextRectId,
                         nextLineId |-> m.nextLineId, nextZIndex |-> m.nextZIndex ] ]
      Rects(t, mr) == Lines(mr.ref, t, cloneLinesAt(mr.mem, m.lines))
      Boxes(mr) == Rects(mr.ref, cloneRectanglesAt(mr.mem, m.rectangles))
  IN Boxes(cloneTextBoxesAt(m, m.textBoxes))

saveSnapshotAt(m) ==
  LET Push(c) == [c.mem EXCEPT !.historyStack = CapHistory(Append(@, c.snapshot)),
                               !.redoStack = <<>>]
  IN Push(currentSnapshotAt(m))

\* `this.textBoxes = snapshot.textBoxes` and so on: the arrays of the
\* snapshot become the live arrays
installSnapshotAt(m, snapshot) ==
  [m EXCEPT !.textBoxes = snapshot.textBoxes,
            !.rectangles = snapshot.rectangles,
            !.lines = snapshot.lines,
            !.nextTextBoxId = snapshot.nextTextBoxId,
            !.nextRectId = snapshot.nextRectId,
            !.nextLineId = snapshot.nextLineId,
            !.nextZIndex = snapshot.nextZIndex]

undoAt(m) ==
  IF Len(m.historyStack) = 0 THEN m
  ELSE LET Pop(c) ==
             installSnapshotAt(
               [c.mem EXCEPT !.redoStack = Append(@, c.snapshot),
                             !.historyStack = SubSeq(@, 1, Len(@) - 1)],
               m.historyStack[Len(m.historyStack)])
       IN Pop(currentSnapshotAt(m))

redoAt(m) ==
  IF Len(m.redoStack) = 0 THEN m
  ELSE LET Pop(c) ==
             installSnapshotAt(
               [c.mem EXCEPT !.historyStack = Append(@, c.snapshot),
                             !.redoStack = SubSeq(@, 1, Len(@) - 1)],
               m.redoStack[Len(m.redoStack)])
       IN Pop(currentSnapshotAt(m))

\* the CanvasApp whose collections are the live objects of m, everything selected
AppOf(m) ==
  LET All(s) == [s EXCEPT !.selectedTextBoxIds = IdsOf(s.textBoxes),
                          !.selectedRectIds = IdsOf(s.rectangles),
                          !.selectedLineIds = IdsOf(s.lines)]
  IN All(WithDoc(EmptyApp, DocAt(m, Live(m))))

\* assignments to the fields of the live records and of their character
\* records (`box.x += dx`, `rect.x1 = mouseX`, `char.color = ...`,
\* `obj.zIndex = ...`): the objects at the live addresses take the values of
\* doc, which has as many entities and characters as the live document
AssignFields(m, doc) ==
  LET boxes == m.arrays[m.textBoxes]
      rects == m.arrays[m.rectangles]
      lines == m.arrays[m.lines]
      \* the run, and the place in it, of the live character record at c
      RunOfChar(c) ==
        IF \E i \in 1..Len(boxes) : IndexOf(m.charArrays[m.records[boxes[i]].chars], c) # 0
        THEN CHOOSE i \in 1..Len(boxes) :
               IndexOf(m.charArrays[m.records[boxes[i]].chars], c) # 0
        ELSE 0
      CharAt(c, i) ==
        IF i = 0 THEN m.chars[c]
        ELSE doc.textBoxes[i].chars[IndexOf(m.charArrays[m.records[boxes[i]].chars], c)]
      RecordAt(a, ti, ri, li) ==
        IF ti # 0 THEN [doc.textBoxes[ti] EXCEPT !.chars = m.records[a].chars]
        ELSE IF ri # 0 THEN doc.rectangles[ri]
        ELSE IF li # 0 THEN doc.lines[li]
        ELSE m.records[a]
  IN [m EXCEPT
        !.records = [a \in 1..Len(m.records) |->
                       RecordAt(a, IndexOf(boxes, a), IndexOf(rects, a), IndexOf(lines, a))],
        !.chars = [c \in 1..Len(m.chars) |-> CharAt(c, RunOfChar(c))]]

\* handleTextInput, a printable character: saveSnapshot(), then
\* `box.chars.splice(this.textCursorPos, 0, newChar)` on the character array
\* of the run
typeCharacterAt(m, box, textCursorPos, sequence) ==
  LET Type(t, ca) ==
        [t EXCEPT
           !.chars = Append(@, [char |-> sequence, bold |-> EmptyApp.boldMode,
                                color |-> EmptyApp.currentStrokeColor]),
           !.charArrays[ca] = Splice(@, textCursorPos, 0, << Len(t.chars) + 1 >>)]
  IN Type(saveSnapshotAt(m), m.records[box].chars)

\* the objects of a document, each at an address of its own, and the fields
\* of a CanvasApp that has loaded it
Allocated(doc) ==
  LET n == Len(doc.textBoxes)
      RECURSIVE AllChars(_)
      AllChars(i) == IF i > n THEN <<>> ELSE doc.textBoxes[i].chars \o AllChars(i + 1)
      Before(i) == LET Sum[j \in 0..n] ==
                         IF j = 0 THEN 0 ELSE Sum[j - 1] + Len(doc.textBoxes[j].chars)
                   IN Sum[i - 1]
      nr == Len(doc.rectangles)
      nl == Len(doc.lines)
  IN [ arrays |-> << [i \in 1..n |-> i], [i \in 1..nr |-> n + i], [i \in 1..nl |-> n + nr + i] >>,
       records |-> [i \in 1..n |-> [doc.textBoxes[i] EXCEPT !.chars = i]]
                     \o doc.rectangles \o doc.lines,
       charArrays |-> [i \in 1..n |->
                         [k \in 1..Len(doc.textBoxes[i].chars) |-> Before(i) + k]],
       chars |-> AllChars(1),
       textBoxes |-> 1, rectangles |-> 2, lines |-> 3,
       nextTextBoxId |-> doc.nextTextBoxId, nextRectId |-> doc.nextRectId,
       nextLineId |-> doc.nextLineId, nextZIndex |-> doc.nextZIndex,
       historyStack |-> <<>>, redoStack |-> <<>> ]

\* the documents the operations start from: the shapes with the run "a"
HeapDocs == { Doc(RunScript(World0, ScriptText).app) }

InitHeap ==
  /\ app = EmptyApp /\ button = FALSE /\ loadFileResult = World0.loadFileResult
  /\ gpre = <<>> /\ gpend = "none" /\ gundo = 0
  /\ steps = 0
  /\ \E doc \in HeapDocs : mem = Allocated(doc)

\* a handler that has left the CanvasApp s2 of values when run on the live
\* document of m: its saveSnapshot(), when it called it, then its assignments
Handled(m, s2) ==
  AssignFields(IF s2.historyStack # <<>> THEN saveSnapshotAt(m) ELSE m, Doc(s2))

HeapStep(m) ==
  /\ steps < MaxHeapSteps
  /\ mem' = m
  /\ steps' = steps + 1
  /\ UNCHANGED <<app, button, loadFileResult, gpre, gpend, gundo>>

\* a pointer-down on a selected entity, or on a resize handle: saveSnapshot()
HeapDown == HeapStep(saveSnapshotAt(mem))

\* a drag event of a selection drag: moveSelection(dx, dy)
HeapDrag ==
  \E dx \in {1}, dy \in {0, 1} :
    HeapStep(Handled(mem, moveSelection(AppOf(mem), dx, dy)))

\* a drag event of a resize: resizeRect(id, mouseX, mouseY)
HeapResize ==
  \E handle \in {"nw", "se"}, x \in {2, 3} :
    HeapStep(Handled(mem,
      resizeRect([AppOf(mem) EXCEPT !.resizeHandle = handle],
                 SetFirst(AppOf(mem).selectedRectIds), x, 1)))

\* a printable key while the first run is edited
HeapType ==
  \E textCursorPos \in {0, 1} :
    /\ Len(mem.arrays[mem.textBoxes]) > 0
    /\ HeapStep(typeCharacterAt(mem, mem.arrays[mem.textBoxes][1], textCursorPos, "b"))

\* a click on a stroke colour of the palette: applyStrokeColorToSelection()
HeapRecolor ==
  HeapStep(Handled(mem,
    applyStrokeColorToSelection(
      [AppOf(mem) EXCEPT !.currentStrokeColor = STROKE_PALETTE[2]])))

\* ctrl+] with one entity selected: moveLayerUp()
HeapLayerUp ==
  \E kind \in {"text", "rect", "line"} :
    HeapStep(Handled(mem,
      moveLayerUp(
        [AppOf(mem) EXCEPT
           !.selectedTextBoxIds = IF kind = "text" THEN @ ELSE <<>>,
           !.selectedRectIds = IF kind = "rect" THEN @ ELSE <<>>,
           !.selectedLineIds = IF kind = "line" THEN @ ELSE <<>>])))

HeapUndo == HeapStep(undoAt(mem))
HeapRedo == HeapStep(redoAt(mem))

NextHeap ==
  \/ HeapDown \/ HeapDrag \/ HeapResize \/ HeapType
  \/ HeapRecolor \/ HeapLayerUp \/ HeapUndo \/ HeapRedo

SpecHeap == InitHeap /\ [][NextHeap]_vars

----------------------------------------------------------------------------
(* Specification: keys and pointer events after an undo, between gestures   *)
(* and in the middle of one                                                 *)

\* events delivered after the initial state
MaxUndoneSteps == 3

\* the run "a" typed into a new run and its edit ended, then one undo: the
\* snapshot taken before the "a" is installed
ScriptEmptyRestored ==
  ScriptShapes \o << KeyT, Down(1, 0), Up(1, 0), KeyA, KeyEscape, CtrlZ >>
\* the selected run "a" dragged one column right and, the button still down,
\* one undo
ScriptUndoneInDrag == ScriptSelected \o << Down(1, 0), Drag(2, 0), CtrlZ >>
\* the rectangle selected by a click and resized by its se handle and, the
\* button still down, one undo
ScriptUndoneInResize ==
  ScriptShapes \o << Down(0, 0), Up(0, 0), Down(1, 1), Drag(2, 1), CtrlZ >>
\* the line dragged, the drag undone, and a pointer-down on the line
ScriptUndoneThenDown == ScriptMoved \o << CtrlZ, Down(2, 0) >>

UndoneSeeds ==
  { ScriptEmptyRestored, ScriptUndoneInDrag, ScriptUndoneInResize, ScriptUndoneThenDown }

InitUndone ==
  /\ \E script \in UndoneSeeds : IsWorld(RunScript(World0, script))
  /\ steps = 0

UndoneKey ==
  /\ steps < MaxUndoneSteps
  /\ \E key \in Keys, writeOk \in BOOLEAN :
       BecomesWorld(DeliverKey(Now, key, writeOk))
  /\ steps' = steps + 1

UndoneMouse ==
  /\ steps < MaxUndoneSteps
  /\ \E type \in MouseTypes, cell \in Cells, shift \in BOOLEAN :
       /\ shift => type = "down"
       /\ BecomesWorld(DeliverMouse(Now, MouseEvent(type, cell[1], cell[2], shift)))
  /\ steps' = steps + 1

NextUndone == UndoneKey \/ UndoneMouse

SpecUndone == InitUndone /\ [][NextUndone]_vars

----------------------------------------------------------------------------
(* Specification: keys and pointer events while a text run is under edit    *)

\* events delivered after the initial state
MaxEditSteps == 2

CtrlC == KeyEvent("c", "x03", TRUE)

EditKeys == Keys \cup {CtrlC}

\* the shapes and the text run "a" at (1,0) under edit, the caret after it
ScriptTyping == ScriptShapes \o << KeyT, Down(1, 0), Up(1, 0), KeyA >>
\* the save prompt opened with the text tool active, then an empty run made
\* at (1,1) by a click
ScriptEditingPrompt == ScriptShapes \o << KeyT, CtrlS, Down(1, 1), Up(1, 1) >>
\* the selected run "a" clicked again: under edit in the move tool
ScriptClickedToEdit == ScriptSelected \o << Down(1, 0), Up(1, 0) >>

EditSeeds == { ScriptEditing, ScriptTyping, ScriptEditingPrompt, ScriptClickedToEdit }

InitEdit ==
  /\ \E script \in EditSeeds : IsWorld(RunScript(World0, script))
  /\ steps = 0

EditKey ==
  /\ steps < MaxEditSteps
  /\ \E key \in EditKeys, writeOk \in BOOLEAN :
       BecomesWorld(DeliverKey(Now, key, writeOk))
  /\ steps' = steps + 1

EditMouse ==
  /\ steps < MaxEditSteps
  /\ \E type \in MouseTypes, cell \in Cells :
       BecomesWorld(DeliverMouse(Now, MouseEvent(type, cell[1], cell[2], FALSE)))
  /\ steps' = steps + 1

NextEdit == EditKey \/ EditMouse

SpecEdit == InitEdit /\ [][NextEdit]_vars

----------------------------------------------------------------------------
(* Specification: the events of a text edit with the ticks of the caret     *)
(* timer between them                                                       *)

\* the interval timer fires between two events, any number of times
BlinkTick ==
  /\ app' = cursorBlinkTick(app)
  /\ UNCHANGED <<button, loadFileResult, steps, gpre, gpend, gundo, mem>>

NextBlink == EditKey \/ EditMouse \/ BlinkTick

SpecBlink == InitEdit /\ [][NextBlink]_vars

----------------------------------------------------------------------------
(* Specification: pointer gestures on a selected rectangle, alone or with a *)
(* text run on one of its handles and a line through another                *)

\* columns 0..MaxResizeX and rows 0..MaxResizeY are where the pointer goes
MaxResizeX == 3
MaxResizeY == 2
\* pointer events delivered after the initial state
MaxResizeSteps == 3
\* rows of the canvas: the rows of the pointer and the palette row
ResizeGridHeight == 4

\* the extent (0,0)-(3,2) in the four orders of its stored corners
ResizeRects ==
  { [ id |-> 1, x1 |-> x1, y1 |-> y1, x2 |-> 3 - x1, y2 |-> 2 - y1, bold |-> FALSE,
      zIndex |-> 1, strokeColor |-> White, fillColor |-> null ] :
      x1 \in {0, 3}, y1 \in {0, 2} }
\* a text run on the south-west handle
ResizeRun ==
  [ id |-> 1, x |-> 0, y |-> 2,
    chars |-> << [char |-> "a", bold |-> FALSE, color |-> null] >>,
    zIndex |-> 2, strokeColor |-> White, fillColor |-> null ]
\* a line through the east handle
ResizeLine ==
  [ id |-> 1, x1 |-> 3, y1 |-> 1, x2 |-> 5, y2 |-> 1, bold |-> FALSE,
    zIndex |-> 3, strokeColor |-> White, fillColor |-> null ]

ResizeDocs ==
  { [ textBoxes |-> tb, rectangles |-> <<rect>>, lines |-> ls,
      nextTextBoxId |-> 2, nextRectId |-> 2, nextLineId |-> 2, nextZIndex |-> 4 ] :
      tb \in { <<>>, <<ResizeRun>> }, rect \in ResizeRects, ls \in { <<>>, <<ResizeLine>> } }

\* the rectangle selected by a click on its border off the handles
ScriptRectSelected == << Down(2, 0), Up(2, 0) >>
\* ... and the line (if there is one) added with shift
ScriptTwoSelected ==
  ScriptRectSelected \o << MouseEvent("down", 4, 1, TRUE), Up(4, 1) >>
\* ... or the rectangle pressed again and released over the toolbar row
ScriptReleasedOnToolbar ==
  ScriptRectSelected \o << Down(2, 0), Up(2, ResizeGridHeight) >>

ResizeScripts == { ScriptRectSelected, ScriptTwoSelected, ScriptReleasedOnToolbar }

ResizeCells == (0..MaxResizeX) \X (0..MaxResizeY)

InitResize ==
  /\ \E doc \in ResizeDocs, script \in ResizeScripts :
       IsWorld(RunScript(
                 [World0 EXCEPT
                    !.app = WithDoc([EmptyApp EXCEPT !.gridHeight = ResizeGridHeight], doc)],
                 script))
  /\ steps = 0

ResizeMouse ==
  /\ steps < MaxResizeSteps
  /\ \E type \in (IF button THEN {"drag", "up"} ELSE {"down"}),
        cell \in ResizeCells, shift \in BOOLEAN :
       /\ shift => type = "down"
       /\ BecomesWorld(DeliverMouse(Now, MouseEvent(type, cell[1], cell[2], shift)))
  /\ steps' = steps + 1

NextResize == ResizeMouse

SpecResize == InitResize /\ [][NextResize]_vars

----------------------------------------------------------------------------
(* Claims about undo and redo                                               *)

\* the step is an undo() call made with no mouse button down, after the
\* mutating gestures whose documents gpre holds
UndoOfGesture == gundo' = gundo + 1

\* C1, as the code has it: after N mutating gestures (each of them a listed
\* gesture, nothing else taking a snapshot in between), each of the N undo()
\* calls leaves the three collections and the four counters as they were when
\* the gesture it undoes took its snapshot: the document before that gesture,
\* less the empty text run whose edit the gesture's pointer-down ended.
C1_UndoRestoresSnapshotOfGesture ==
  [][UndoOfGesture => Doc(app') = gpre[Len(gpre)].snap]_vars

\* C1 as stated: every one of the undo() calls leaves the collections and
\* counters equal to their values before the gesture it undoes, so N of them
\* after N gestures give the values before the first gesture.
C1_UndoRestoresBeforeGesture ==
  [][UndoOfGesture => Doc(app') = gpre[Len(gpre)].lit]_vars

\* two gestures have been undone by two undo() calls in a row
C1_Witness == gundo >= 2

\* C2: in every reachable state whose undo stack is not empty (depths 1 to
\* MAX_HISTORY), undo() followed at once by redo() leaves the collections, the
\* counters, the undo stack and the redo stack as they were before the undo.
C2_UndoThenRedo ==
  Len(app.historyStack) > 0 =>
    /\ Doc(redo(undo(app))) = Doc(app)
    /\ redo(undo(app)).historyStack = app.historyStack
    /\ redo(undo(app)).redoStack = app.redoStack

\* an undo() has just left the full undo stack one snapshot short
C2_Witness ==
  /\ Len(app.historyStack) = MAX_HISTORY - 1
  /\ Len(app.redoStack) >= 1
  /\ Doc(undo(app)) # Doc(app)

\* a snapshot is pushed on the full undo stack
PushOnFull ==
  /\ Len(app.historyStack) = MAX_HISTORY
  /\ app'.historyStack # app.historyStack
  /\ Len(app'.historyStack) >= MAX_HISTORY

\* C3: the undo stack never holds more than MAX_HISTORY snapshots, after redo
\* too, and a push on the full stack drops the oldest snapshot and keeps the
\* others in order under the new one.
C3_UndoStackCapped ==
  /\ [](Len(app.historyStack) <= MAX_HISTORY)
  /\ [][PushOnFull =>
          app'.historyStack = Append(Tail(app.historyStack), currentSnapshot(app))]_vars

\* the stack is full and its two oldest snapshots (the documents before the
\* first and before the second draw) have been dropped
C3_Witness ==
  /\ Len(app.historyStack) = MAX_HISTORY
  /\ Len(app.historyStack[1].rectangles) = 2

----------------------------------------------------------------------------
(* Claims about the file codec                                              *)

\* C4: the document written by toFileData and read back by loadFile equals the
\* original in every field of every entity, in the order of the collections
\* and in the four counters.
C4_RoundTrip ==
  /\ loadFile(app, <<"saved">>, SavedFile(app)).result
  /\ Doc(loadFile(app, <<"saved">>, SavedFile(app)).state) = Doc(app)

\* a document with an empty and a non-empty run, null and non-null colors and
\* a single-point line has been saved and loaded
C4_Witness ==
  /\ loadFileResult.calls = 1
  /\ loadFileResult.result
  /\ app.textBoxes = <<CodecRun, CodecEmptyRun>>
  /\ Len(app.rectangles) = 2
  /\ Len(app.lines) = 2

\* the step is a loadFile call on one of the files
LoadOf(files) ==
  /\ loadFileResult'.calls = loadFileResult.calls + 1
  /\ loadFileResult'.file \in files

\* C5: loadFile on a file whose version is not 1 reports failure and changes
\* nothing: collections, counters, selection, hover, active edit, both stacks
\* and the current file path.
C5_BadVersionChangesNothing ==
  [][LoadOf(BadVersionFiles) => ~loadFileResult'.result /\ app' = app]_vars

\* a file of version 2 was refused while the document had a selection and
\* an undo stack
C5_Witness ==
  /\ loadFileResult.file \in BadVersionFiles
  /\ ~loadFileResult.result
  /\ hasSelection(app)
  /\ Len(app.historyStack) > 0

\* C6: loadFile on a file of version 1 whose textBoxes, rectangles or lines is
\* not an array reports failure and leaves the collections, the counters and
\* both stacks as they were.
C6_MalformedChangesNothing ==
  [][LoadOf(MalformedFiles) =>
       /\ ~loadFileResult'.result
       /\ Doc(app') = Doc(app)
       /\ app'.historyStack = app.historyStack
       /\ app'.redoStack = app.redoStack]_vars

\* C7: a loadFile that succeeds replaces the collections and the counters by
\* the file's, empties both stacks so that undo() and redo() do nothing, and
\* leaves no selection, no hover and no active edit.
C7_LoadReplacesDocument ==
  [][LoadOf(FileNames) /\ loadFileResult'.result =>
       /\ toFileData(app') = FileContent(loadFileResult'.file).data
       /\ app'.historyStack = <<>> /\ app'.redoStack = <<>>
       /\ undo(app') = app' /\ redo(app') = app'
       /\ ~hasSelection(app')
       /\ app'.hoveredTextBoxId = nullId /\ app'.hoveredRectId = nullId
       /\ app'.hoveredLineId = nullId
       /\ app'.activeTextBoxId = nullId]_vars

\* the valid file has been loaded
C7_Witness ==
  /\ loadFileResult.file = "valid"
  /\ loadFileResult.result
  /\ toFileData(app) = ValidData
  /\ app.currentFilePath = <<"valid">>

----------------------------------------------------------------------------
(* Claims about layers and ids                                              *)

Entities(doc) == doc.textBoxes \o doc.rectangles \o doc.lines

Distinct(seq) == \A i, j \in 1..Len(seq) : seq[i] = seq[j] => i = j

\* C8: in every state reached from the empty document by pointer and key
\* events no two entities, of whatever kinds, have the same z-index.
C8_UniqueZIndex == Distinct(ZsOf(Entities(Doc(app))))

\* three entities of three kinds, a text run below a line drawn before it
C8_Witness ==
  /\ Len(app.textBoxes) >= 1 /\ Len(app.rectangles) >= 1 /\ Len(app.lines) >= 1
  /\ \E i \in 1..Len(app.textBoxes), j \in 1..Len(app.lines) :
       app.textBoxes[i].zIndex < app.lines[j].zIndex

\* the entities of seq, those with z-index a and b having exchanged them
Exchanged(seq, a, b) ==
  [i \in 1..Len(seq) |->
     [seq[i] EXCEPT !.zIndex = IF @ = a THEN b ELSE IF @ = b THEN a ELSE @]]

\* doc with the z-indices a and b exchanged, nothing else changed
ExchangedDoc(doc, a, b) ==
  [doc EXCEPT !.textBoxes = Exchanged(@, a, b),
              !.rectangles = Exchanged(@, a, b),
              !.lines = Exchanged(@, a, b)]

\* the z-index next to z in the ascending order of zs, 0 when there is none
NeighbourZ(zs, z, up) ==
  LET beyond == {y \in {zs[i] : i \in 1..Len(zs)} : IF up THEN y > z ELSE y < z}
  IN IF beyond = {} THEN 0
     ELSE CHOOSE y \in beyond : \A o \in beyond : IF up THEN y <= o ELSE y >= o

\* C9: when exactly one entity is selected and it is not the topmost
\* (bottommost), moveLayerUp (moveLayerDown) exchanges its z-index with that of
\* the entity next above (below) it: the z-indices of the document are the same
\* multiset, those two entities alone change and only in their z-index.
C9_LayerSwap ==
  \A up \in BOOLEAN :
    LET selected == getSelectedObject(app)
        other == NeighbourZ(getAllZIndices(app), selected.zIndex, up)
    IN getTotalSelectionCount(app) = 1 /\ selected.type # "none" /\ other # 0 =>
         Doc(IF up THEN moveLayerUp(app) ELSE moveLayerDown(app))
           = ExchangedDoc(Doc(app), selected.zIndex, other)

\* one of three entities is selected and the last snapshot is the document
\* before it was raised over its neighbour
C9_Witness ==
  /\ getTotalSelectionCount(app) = 1
  /\ Len(Entities(Doc(app))) >= 3
  /\ Len(app.historyStack) > 0
  /\ LET selected == getSelectedObject(app)
         other == NeighbourZ(getAllZIndices(app), selected.zIndex, FALSE)
     IN /\ selected.type # "none"
        /\ other # 0
        /\ Doc(app) = ExchangedDoc(app.historyStack[Len(app.historyStack)],
                                   selected.zIndex, other)

UniqueIds(doc) ==
  /\ Distinct(IdsOf(doc.textBoxes))
  /\ Distinct(IdsOf(doc.rectangles))
  /\ Distinct(IdsOf(doc.lines))

\* C10: no two entities of one kind have the same id, in the document and in
\* every snapshot of the undo stack and of the redo stack.
C10_UniqueIds ==
  /\ UniqueIds(Doc(app))
  /\ \A i \in 1..Len(app.historyStack) : UniqueIds(app.historyStack[i])
  /\ \A i \in 1..Len(app.redoStack) : UniqueIds(app.redoStack[i])

\* a snapshot with two rectangles is on the redo stack, one on the undo stack
C10_Witness ==
  /\ Len(app.historyStack) > 0
  /\ \E i \in 1..Len(app.redoStack) : Len(app.redoStack[i].rectangles) >= 2

Counters(s) == << s.nextTextBoxId, s.nextRectId, s.nextLineId, s.nextZIndex >>

NoCounterDecreases == \A i \in 1..4 : Counters(app')[i] >= Counters(app)[i]

\* the entities of new whose id no entity of old has are numbered from counter on
FreshIds(old, new, counter) ==
  \A i \in 1..Len(new) :
    (\A j \in 1..Len(old) : old[j].id # new[i].id) => new[i].id >= counter

\* every entity that appears in the step has an id from the counter of its kind on
NewIdsFromCounters ==
  /\ FreshIds(app.textBoxes, app'.textBoxes, app.nextTextBoxId)
  /\ FreshIds(app.rectangles, app'.rectangles, app.nextRectId)
  /\ FreshIds(app.lines, app'.lines, app.nextLineId)

\* the step is an undo() call that found a snapshot
UndoStep == app.historyStack # <<>> /\ app' = undo(app)

\* C11, as the code has it: every event but undo() leaves the four counters
\* where they were or higher and gives every entity it creates an id not below
\* the counter of its kind, so deletion, empty-run commit and redo() reuse no
\* id; undo() sets the four counters back to the values of the snapshot it
\* installs, after which ids assigned since that snapshot are assigned again.
C11_CountersGrowExceptOnUndo ==
  [][IF UndoStep
     THEN Counters(app') = Counters(app.historyStack[Len(app.historyStack)])
     ELSE NoCounterDecreases /\ NewIdsFromCounters]_vars

\* C11 as stated: over every event, undo() and redo() included, no counter
\* decreases and a created entity gets an id not below the counter of its
\* kind, hence above every id assigned before.
C11_CountersNeverDecrease ==
  [][NoCounterDecreases /\ (~UndoStep => NewIdsFromCounters)]_vars

\* the text run 1 was removed by the commit of its empty edit, another run
\* was created after it and has the id 2
C11_Witness ==
  /\ Len(app.textBoxes) = 1
  /\ app.textBoxes[1].id = 2
  /\ app.nextTextBoxId = 3

----------------------------------------------------------------------------
(* Claims about geometry                                                    *)

InCanvas(s, x, y) == 0 <= x /\ x <= s.gridWidth - 1 /\ 0 <= y /\ y <= s.gridHeight - 1

Extent(rect) ==
  [ xlo |-> IF rect.x1 <= rect.x2 THEN rect.x1 ELSE rect.x2,
    xhi |-> IF rect.x1 <= rect.x2 THEN rect.x2 ELSE rect.x1,
    ylo |-> IF rect.y1 <= rect.y2 THEN rect.y1 ELSE rect.y2,
    yhi |-> IF rect.y1 <= rect.y2 THEN rect.y2 ELSE rect.y1 ]

InExtent(x, y, rect) ==
  /\ Extent(rect).xlo <= x /\ x <= Extent(rect).xhi
  /\ Extent(rect).ylo <= y /\ y <= Extent(rect).yhi

StrictlyInside(x, y, rect) ==
  /\ Extent(rect).xlo < x /\ x < Extent(rect).xhi
  /\ Extent(rect).ylo < y /\ y < Extent(rect).yhi

\* the cell is in the top or bottom row or the left or right column of the extent
OnOutline(x, y, rect) == InExtent(x, y, rect) /\ ~StrictlyInside(x, y, rect)

\* the cells probed: the canvas rows and columns of the corners and one around
ProbeCells == (-1..(MaxCornerX + 1)) \X (-1..(MaxCornerY + 1))

\* no entity is hit at the cell and the palette does not take the click
NothingAt(s, x, y) ==
  /\ getTextBoxAt(s, x, y) = 0
  /\ getRectangleAt(s, x, y) = 0
  /\ getLineAt(s, x, y) = 0
  /\ ~handleColorPickerClick(s, x, y).handled

\* C13: a cell hits a rectangle iff it is on the outline of its normalized
\* extent (corners, edge midpoints and the other border cells hit, cells
\* strictly inside do not), however the corners are stored; and a click with
\* the move tool strictly inside a rectangle, at a cell where nothing else is
\* hit, leaves nothing selected after the pointer-down and after the pointer-up.
C13_RectangleHitTest ==
  \A i \in 1..Len(app.rectangles), c \in ProbeCells :
    /\ isOnRectBorder(c[1], c[2], app.rectangles[i]) <=> OnOutline(c[1], c[2], app.rectangles[i])
    /\ Len(app.rectangles) = 1 =>
         (getRectangleAt(app, c[1], c[2]) # 0 <=> OnOutline(c[1], c[2], app.rectangles[i]))
    /\ ( /\ StrictlyInside(c[1], c[2], app.rectangles[i])
         /\ InCanvas(app, c[1], c[2])
         /\ app.currentTool = "move" /\ app.activeTextBoxId = nullId
         /\ NothingAt(app, c[1], c[2]) )
       => /\ ~hasSelection(handleMouse(app, Down(c[1], c[2])))
          /\ ~hasSelection(handleMouse(handleMouse(app, Down(c[1], c[2])), Up(c[1], c[2])))

\* a rectangle stored with x1 > x2 was selected by a click on its border and
\* the pointer is now down strictly inside it: nothing is selected
C13_Witness ==
  /\ steps = 3 /\ button
  /\ app.mouseDownX = 1 /\ app.mouseDownY = 1
  /\ Len(app.lines) = 0
  /\ app.rectangles[1].x1 > app.rectangles[1].x2
  /\ StrictlyInside(1, 1, app.rectangles[1])
  /\ Len(app.historyStack) = 1
  /\ ~hasSelection(app)

Cell(x, y) == [x |-> x, y |-> y]

\* the cells from the first stored endpoint of the line to the second
PointsOf(line) == getLinePoints(line.x1, line.y1, line.x2, line.y2)
\* and from the second to the first
PointsBack(line) == getLinePoints(line.x2, line.y2, line.x1, line.y1)

SetOf(seq) == {seq[i] : i \in 1..Len(seq)}

\* C14: for all endpoints p1, p2, getLinePoints ends and returns cells that
\* start at p1, end at p2, number max(|dx|, |dy|) + 1 with none repeated, each
\* next cell at most 1 away in x and in y; (0,0)-(3,0) gives the four cells of
\* the row and (0,0)-(2,2) the three cells of the diagonal.
C14_LinePoints ==
  /\ \A i \in 1..Len(app.lines) :
       LET line == app.lines[i]
           points == PointsOf(line)
       IN /\ points[1] = Cell(line.x1, line.y1)
          /\ points[Len(points)] = Cell(line.x2, line.y2)
          /\ Len(points) = Max(Abs(line.x2 - line.x1), Abs(line.y2 - line.y1)) + 1
          /\ Distinct(points)
          /\ \A k \in 1..(Len(points) - 1) :
               /\ Abs(points[k + 1].x - points[k].x) <= 1
               /\ Abs(points[k + 1].y - points[k].y) <= 1
  /\ getLinePoints(0, 0, 3, 0) = << Cell(0, 0), Cell(1, 0), Cell(2, 0), Cell(3, 0) >>
  /\ getLinePoints(0, 0, 2, 2) = << Cell(0, 0), Cell(1, 1), Cell(2, 2) >>

\* the pointer is over a middle cell of the steep line (0,0)-(1,3)
C14_Witness ==
  /\ Len(app.lines) = 1
  /\ app.lines[1].x1 = 0 /\ app.lines[1].y1 = 0
  /\ app.lines[1].x2 = 1 /\ app.lines[1].y2 = 3
  /\ app.hoveredLineId = 1
  /\ steps = 1
  /\ Len(PointsOf(app.lines[1])) = 4

\* C15: the cells from p1 to p2 and the cells from p2 to p1 are the same set,
\* for every slope.
C15_EndpointOrder ==
  \A i \in 1..Len(app.lines) : SetOf(PointsOf(app.lines[i])) = SetOf(PointsBack(app.lines[i]))

----------------------------------------------------------------------------
(* Claims about gestures                                                    *)

\* the cells of the bounding box of a text run: its row, max(1, length) wide
CellsOfRun(box) ==
  { <<x, box.y>> : x \in box.x..(box.x + (IF Len(box.chars) = 0 THEN 0 ELSE Len(box.chars) - 1)) }

\* the cells of the extent spanned by two corners
CellsBetween(x1, y1, x2, y2) ==
  { <<x, y>> : x \in (IF x1 <= x2 THEN x1..x2 ELSE x2..x1),
               y \in (IF y1 <= y2 THEN y1..y2 ELSE y2..y1) }

CellsOfShape(e) == CellsBetween(e.x1, e.y1, e.x2, e.y2)

\* a pointer-up in the canvas ends a box selection
MarqueeEnd == app.isSelecting /\ button /\ ~button' /\ ~app'.isSelecting

\* the cells between the anchor and the release cell
MarqueeCells ==
  CellsBetween(app.drawStartX, app.drawStartY, app'.drawCursorX, app'.drawCursorY)

\* C16: the pointer-up that ends a box selection with anchor a and release
\* cell b adds to the selection exactly the entities whose bounding box has a
\* cell in the rectangle spanned by a and b, keeps what was selected and
\* changes no entity.
C16_BoxSelection ==
  [][MarqueeEnd =>
       /\ SetOf(app'.selectedTextBoxIds) = SetOf(app.selectedTextBoxIds) \cup
            { app.textBoxes[i].id : i \in
                { j \in 1..Len(app.textBoxes) :
                    CellsOfRun(app.textBoxes[j]) \cap MarqueeCells # {} } }
       /\ SetOf(app'.selectedRectIds) = SetOf(app.selectedRectIds) \cup
            { app.rectangles[i].id : i \in
                { j \in 1..Len(app.rectangles) :
                    CellsOfShape(app.rectangles[j]) \cap MarqueeCells # {} } }
       /\ SetOf(app'.selectedLineIds) = SetOf(app.selectedLineIds) \cup
            { app.lines[i].id : i \in
                { j \in 1..Len(app.lines) :
                    CellsOfShape(app.lines[j]) \cap MarqueeCells # {} } }
       /\ Doc(app') = Doc(app)]_vars

\* the marquee (0,0)-(2,2) has selected the rectangle (1,1)-(4,4), the run at
\* (2,0)-(3,0), the empty run at (2,2) and the line (0,2)-(0,3): it meets each
\* of them and covers none but the empty run
C16_Witness ==
  /\ steps = 3 /\ ~button
  /\ app.drawStartX = 0 /\ app.drawStartY = 0
  /\ app.drawCursorX = 2 /\ app.drawCursorY = 2
  /\ ~app.isSelecting /\ app.hasDragged = FALSE
  /\ app.selectedRectIds = <<1>>
  /\ app.selectedTextBoxIds = <<1, 2>>
  /\ app.selectedLineIds = <<1>>

LastSnapshot(s) == s.historyStack[Len(s.historyStack)]

\* the run under edit is the empty run that a click with the text tool made,
\* and nothing took a snapshot since: the last snapshot is the document before
\* that click, the document is that one with the new run and its counters
JustCreated(s) ==
  /\ s.activeTextBoxId # nullId
  /\ s.historyStack # <<>>
  /\ s.activeTextBoxId = LastSnapshot(s).nextTextBoxId
  /\ s.nextTextBoxId = LastSnapshot(s).nextTextBoxId + 1
  /\ s.nextZIndex = LastSnapshot(s).nextZIndex + 1
  /\ Len(s.textBoxes) = Len(LastSnapshot(s).textBoxes) + 1
  /\ SubSeq(s.textBoxes, 1, Len(s.textBoxes) - 1) = LastSnapshot(s).textBoxes
  /\ s.textBoxes[Len(s.textBoxes)].id = s.activeTextBoxId
  /\ s.textBoxes[Len(s.textBoxes)].chars = <<>>

Tools == {"move", "text", "rectangle", "line"}

\* C17: when the empty run made by a click with the text tool is still empty
\* and its edit ends (escape, a click elsewhere, a tool switch), the text runs
\* are those of before the click.
C17_EmptyRunRemovedOnCommit ==
  /\ [](JustCreated(app) =>
          \A tool \in Tools : setTool(app, tool).textBoxes = LastSnapshot(app).textBoxes)
  /\ [][JustCreated(app) /\ app'.activeTextBoxId = nullId =>
          app'.textBoxes = LastSnapshot(app).textBoxes]_vars

\* the run made by the last snapshot's click is gone: no edit, the text runs
\* of the snapshot, the counters one further
C17_Witness ==
  /\ app.activeTextBoxId = nullId
  /\ app.historyStack # <<>>
  /\ app.nextTextBoxId = LastSnapshot(app).nextTextBoxId + 1
  /\ app.nextZIndex = LastSnapshot(app).nextZIndex + 1
  /\ app.textBoxes = LastSnapshot(app).textBoxes
  /\ app.rectangles = LastSnapshot(app).rectangles
  /\ app.lines = LastSnapshot(app).lines
  /\ Len(app.rectangles) = 1
  /\ steps >= 1

\* the z-index of the one selected entity is the greatest (least) of all
SelectedIsTopmost(s) ==
  \A i \in 1..Len(getAllZIndices(s)) : getAllZIndices(s)[i] <= getSelectedObject(s).zIndex
SelectedIsBottommost(s) ==
  \A i \in 1..Len(getAllZIndices(s)) : getAllZIndices(s)[i] >= getSelectedObject(s).zIndex

\* C18: moveLayerUp and moveLayerDown change nothing (no z-index, no snapshot,
\* the redo stack kept) unless exactly one entity is selected over the three
\* kinds, and nothing either when that entity is already topmost (up) or
\* bottommost (down).
C18_LayerMoveNeedsOneSelected ==
  /\ getTotalSelectionCount(app) # 1 => moveLayerUp(app) = app /\ moveLayerDown(app) = app
  /\ getTotalSelectionCount(app) = 1 /\ SelectedIsTopmost(app) => moveLayerUp(app) = app
  /\ getTotalSelectionCount(app) = 1 /\ SelectedIsBottommost(app) => moveLayerDown(app) = app

\* the entities of seq whose id is not in ids, in their order
Without(seq, ids) == SelectSeq(seq, LAMBDA e : e.id \notin ids)

\* what the delete key is to remove: the selection, else the hovered entity of
\* the first kind that has one (text run, rectangle, line)
DeleteTargets(s) ==
  IF hasSelection(s)
  THEN [ text |-> SetOf(s.selectedTextBoxIds), rect |-> SetOf(s.selectedRectIds),
         line |-> SetOf(s.selectedLineIds) ]
  ELSE IF s.hoveredTextBoxId # nullId
  THEN [ text |-> {s.hoveredTextBoxId}, rect |-> {}, line |-> {} ]
  ELSE IF s.hoveredRectId # nullId
  THEN [ text |-> {}, rect |-> {s.hoveredRectId}, line |-> {} ]
  ELSE [ text |-> {}, rect |-> {}, line |-> {s.hoveredLineId} ]

\* r is s after the delete key: the targets are gone and nothing else, one
\* snapshot of s was pushed, nothing is selected, one undo() gives back s
DeletedFrom(s, r) ==
  /\ r.textBoxes = Without(s.textBoxes, DeleteTargets(s).text)
  /\ r.rectangles = Without(s.rectangles, DeleteTargets(s).rect)
  /\ r.lines = Without(s.lines, DeleteTargets(s).line)
  /\ Counters(r) = Counters(s)
  /\ r.historyStack = Append(s.historyStack, Doc(s))
  /\ r.redoStack = <<>>
  /\ hasSelection(s) => ~hasSelection(r)
  /\ Doc(undo(r)) = Doc(s)

RectDrawEnd == app.isDrawingRect /\ button /\ ~button' /\ ~app'.isDrawingRect
LineDrawEnd == app.isDrawingLine /\ button /\ ~button' /\ ~app'.isDrawingLine

\* the release cell differs from the anchor
ReleasedElsewhere ==
  app'.drawCursorX # app.drawStartX \/ app'.drawCursorY # app.drawStartY

\* stack is history with one snapshot of the document d pushed on it
PushedOn(stack, history, d) ==
  stack = (IF Len(history) >= MAX_HISTORY THEN Tail(history) ELSE history) \o <<d>>

\* new is old with one more entity, which joins the anchor to the release cell,
\* takes its id and its layer from the counters and is the only thing selected
CreatedLast(old, new, id, selected) ==
  /\ Len(new) = Len(old) + 1
  /\ SubSeq(new, 1, Len(old)) = old
  /\ new[Len(new)].id = id
  /\ new[Len(new)].zIndex = app.nextZIndex
  /\ CellsOfShape(new[Len(new)]) = MarqueeCells
  /\ SetElems(selected) = {id}
  /\ getTotalSelectionCount(app') = 1
  /\ PushedOn(app'.historyStack, app.historyStack, Doc(app))

NothingCreated ==
  /\ Doc(app') = Doc(app)
  /\ app'.historyStack = app.historyStack
  /\ app'.redoStack = app.redoStack

\* C20: the pointer-up that ends a draw gesture with anchor a and release cell
\* b creates a rectangle, or a line, exactly when a and b differ. The entity
\* created is the only thing selected afterwards and one snapshot, of the
\* document before it, is pushed. When none is created the collections, the
\* four counters and both history stacks stay as they were. In both cases the
\* active tool is "move" afterwards.
C20_DrawGestureEnd ==
  [][ /\ RectDrawEnd =>
          /\ app'.currentTool = "move"
          /\ IF ReleasedElsewhere
               THEN /\ CreatedLast(app.rectangles, app'.rectangles,
                                   app.nextRectId, app'.selectedRectIds)
                    /\ app'.lines = app.lines /\ app'.textBoxes = app.textBoxes
               ELSE NothingCreated
      /\ LineDrawEnd =>
          /\ app'.currentTool = "move"
          /\ IF ReleasedElsewhere
               THEN /\ CreatedLast(app.lines, app'.lines,
                                   app.nextLineId, app'.selectedLineIds)
                    /\ app'.rectangles = app.rectangles
                    /\ app'.textBoxes = app.textBoxes
               ELSE NothingCreated ]_vars

\* a second line was drawn after the first exploration step: it is the only
\* thing selected, the tool is "move" and the last snapshot is the document
\* without it
C20_Witness ==
  /\ steps >= 1 /\ ~button
  /\ Len(app.lines) = 2
  /\ app.currentTool = "move"
  /\ ~app.isDrawingLine
  /\ SetElems(app.selectedLineIds) = {app.lines[2].id}
  /\ getTotalSelectionCount(app) = 1
  /\ app.historyStack # <<>>
  /\ Len(LastSnapshot(app).lines) = 1

\* a pointer-up on the anchor ended a line: nothing was created, the tool is
\* "move" and no snapshot was taken, so that the pending line is gone
C20_WitnessNone ==
  /\ steps >= 1 /\ ~button
  /\ Len(app.lines) = 1 /\ Len(app.rectangles) = 1
  /\ app.currentTool = "move"
  /\ ~app.isDrawingLine /\ ~app.isDrawingRect
  /\ app.drawStartX = app.drawCursorX /\ app.drawStartY = app.drawCursorY
  /\ Len(app.historyStack) = 2
  /\ ~hasSelection(app)


----------------------------------------------------------------------------
(* Claims about the keys and the pointer during a gesture                   *)

Drawing(s) == s.isDrawingRect \/ s.isDrawingLine

SameDocAndStacks ==
  /\ Doc(app') = Doc(app)
  /\ app'.historyStack = app.historyStack
  /\ app'.redoStack = app.redoStack

\* the step is the escape key
EscapeStep == app' = handleKeypress(app, KeyEscape, TRUE)

\* the step is a pointer event of the gesture under way: a drag or its end
GestureStep ==
  /\ button
  /\ \E type \in {"drag", "up", "drag-end"}, cell \in Cells :
       app' = handleMouse(app, MouseEvent(type, cell[1], cell[2], FALSE))

\* a draw tool is active and the button is down, but no shape is being drawn:
\* the state the escape key leaves behind in the middle of a draw gesture
DrawAborted(s, b) ==
  b /\ s.currentTool \in {"rectangle", "line"} /\ ~Drawing(s)

\* C21, with the save prompt closed: the escape key pressed while a rectangle
\* or a line is being drawn drops the pending shape, and neither that key nor
\* the drag and pointer-up events that follow in the gesture create an
\* entity, change a counter or touch the undo and the redo stack.
C21_EscapeAbortsDraw ==
  [][ /\ (Drawing(app) /\ ~app.showSavePrompt /\ EscapeStep) =>
           /\ ~Drawing(app')
           /\ SameDocAndStacks
      /\ (DrawAborted(app, button) /\ GestureStep) =>
           /\ ~Drawing(app')
           /\ SameDocAndStacks ]_vars

\* C21 as stated, for every escape key pressed during a draw: with the save
\* prompt open the key closes the prompt and the draw goes on
C21_EscapeAlwaysAborts ==
  [][ /\ (Drawing(app) /\ EscapeStep) =>
           /\ ~Drawing(app')
           /\ SameDocAndStacks
      /\ (DrawAborted(app, button) /\ GestureStep) =>
           /\ ~Drawing(app')
           /\ SameDocAndStacks ]_vars

\* the rectangle whose anchor is (1,0) was dropped by the escape key and the
\* pointer was dragged on: no rectangle is pending, none was added
C21_Witness ==
  /\ steps >= 2
  /\ DrawAborted(app, button)
  /\ app.hasDragged
  /\ app.drawStartX = 1 /\ app.drawStartY = 0
  /\ Len(app.rectangles) = 1 /\ Len(app.lines) = 1
  /\ Len(app.historyStack) = 2


\* the pointer events that reach the tools: in the canvas, off the palette
Reaches(s, cell) ==
  cell[2] < s.gridHeight /\ ~handleColorPickerClick(s, cell[1], cell[2]).handled

\* the run is the only thing selected
SoleSelectedRun(s, id) ==
  SetElems(s.selectedTextBoxIds) = {id} /\ getTotalSelectionCount(s) = 1

\* the pointer-down at cell arms the edit of the run it hits
ArmsEdit(s, cell, shift) ==
  LET OnRun(ti) == ti # 0 /\ ~shift /\ SoleSelectedRun(s, s.textBoxes[ti].id)
  IN OnRun(getTextBoxAt(s, cell[1], cell[2]))

\* the pointer-up at cell enters the edit of the armed run
EntersEdit(s, cell) ==
  LET Single(ti) ==
        /\ ti # 0
        /\ app'.activeTextBoxId = s.textBoxes[ti].id
        /\ (cell = <<s.mouseDownX, s.mouseDownY>> =>
              app'.textCursorPos =
                Min(s.mouseDownX - s.textBoxes[ti].x, getTextLength(s.textBoxes[ti])))
        /\ app'.currentTool = "move"
  IN Single(FindIndex(s.textBoxes, SetFirst(s.selectedTextBoxIds)))

----------------------------------------------------------------------------
(* Claims about text editing                                                *)

\* new is old with the character ch put in after the first p characters
InsertedAt(old, new, p, ch) ==
  /\ Len(new) = Len(old) + 1
  /\ new[p + 1].char = ch
  /\ \A k \in 1..Len(old) : old[k] = new[IF k <= p THEN k ELSE k + 1]

\* new is old with the character ch put in: at the caret when the caret is in
\* the run, somewhere in the run anyway
Inserted(old, new, caret, ch) ==
  /\ \E p \in 0..Len(old) : InsertedAt(old, new, p, ch)
  /\ caret \in 0..Len(old) => InsertedAt(old, new, caret, ch)

\* new is old less one character
RemovedOne(old, new) ==
  /\ Len(new) = Len(old) - 1
  /\ \E k \in 1..Len(old) : new = SubSeq(old, 1, k - 1) \o SubSeq(old, k + 1, Len(old))

\* the step is the delivery of key to the keypress listener
KeyStepOf(key) == \E writeOk \in BOOLEAN : app' = handleKeypress(app, key, writeOk)

\* nothing but the characters of the run i changed in the document, by one
\* insertion or one removal with its snapshot, or not at all
EditOnly(i) ==
  /\ i # 0
  /\ Counters(app') = Counters(app)
  /\ app'.rectangles = app.rectangles /\ app'.lines = app.lines
  /\ Len(app'.textBoxes) = Len(app.textBoxes)
  /\ \A j \in 1..Len(app.textBoxes) :
       app'.textBoxes[j] = [app.textBoxes[j] EXCEPT !.chars = app'.textBoxes[j].chars]
  /\ \A j \in 1..Len(app.textBoxes) : j # i => app'.textBoxes[j] = app.textBoxes[j]
  /\ IF app'.textBoxes[i].chars = app.textBoxes[i].chars
     THEN /\ app'.historyStack = app.historyStack
          /\ app'.redoStack = app.redoStack
     ELSE /\ \/ \E ch \in {"m", "t", "r", "l", "a"} :
                  Inserted(app.textBoxes[i].chars, app'.textBoxes[i].chars,
                           app.textCursorPos, ch)
             \/ RemovedOne(app.textBoxes[i].chars, app'.textBoxes[i].chars)
          /\ PushedOn(app'.historyStack, app.historyStack, Doc(app))
          /\ app'.redoStack = <<>>

\* the key was the editor's: no tool chosen, no file saved, no prompt opened,
\* the selection and the run under edit as they were
Consumed ==
  /\ app'.currentTool = app.currentTool
  /\ app'.activeTextBoxId = app.activeTextBoxId
  /\ app'.showSavePrompt = app.showSavePrompt
  /\ app'.currentFilePath = app.currentFilePath
  /\ app'.saveStatusMessage = app.saveStatusMessage
  /\ app'.selectedTextBoxIds = app.selectedTextBoxIds
  /\ app'.selectedRectIds = app.selectedRectIds
  /\ app'.selectedLineIds = app.selectedLineIds

EditorKey(key, editing) ==
  (editing /\ KeyStepOf(key)) =>
     IF key = KeyEscape
     THEN app'.activeTextBoxId = nullId /\ app'.currentTool = "move"
     ELSE IF key = CtrlC THEN app' = app
     ELSE /\ Consumed
          /\ EditOnly(FindIndex(app.textBoxes, app.activeTextBoxId))
          /\ key.sequence \in {"m", "t", "r", "l", "a"} =>
               Inserted(app.textBoxes[FindIndex(app.textBoxes, app.activeTextBoxId)].chars,
                        app'.textBoxes[FindIndex(app.textBoxes, app.activeTextBoxId)].chars,
                        app.textCursorPos, key.sequence)

\* C23, with the save prompt closed: while a text run is under edit every key
\* but escape and ctrl+c is the editor's. The tool letters are inserted at the
\* caret and choose no tool; undo, redo, save, the layer keys and the delete
\* of objects do not run; the document changes by one character put in or
\* taken out of the run under edit, with its snapshot, or not at all. Escape
\* ends the edit with the move tool active; ctrl+c changes nothing.
C23_EditorConsumesKeys ==
  [][ \A key \in EditKeys :
        EditorKey(key, app.activeTextBoxId # nullId /\ ~app.showSavePrompt) ]_vars

\* C23 as stated, for every state with a run under edit: with the save prompt
\* open the keys go to the prompt
C23_EditorConsumesKeysAlways ==
  [][ \A key \in EditKeys : EditorKey(key, app.activeTextBoxId # nullId) ]_vars

\* the letter "m" was typed in front of the "a" of the run under edit: the
\* text tool is still active
C23_Witness ==
  /\ steps >= 2
  /\ app.activeTextBoxId # nullId
  /\ app.currentTool = "text"
  /\ Len(app.textBoxes) = 1
  /\ Len(app.textBoxes[1].chars) = 2
  /\ app.textBoxes[1].chars[1].char = "m"
  /\ app.textBoxes[1].chars[2].char = "a"
  /\ app.textCursorPos = 1


----------------------------------------------------------------------------
(* Claims about the pointer-down of the move tool                           *)

\* what is selected, each id with its kind
Sel(s) ==
  { <<"text", id>> : id \in SetElems(s.selectedTextBoxIds) }
    \cup { <<"rect", id>> : id \in SetElems(s.selectedRectIds) }
    \cup { <<"line", id>> : id \in SetElems(s.selectedLineIds) }

NoEntity == <<"none", nullId>>

\* the entity the pointer-down of the move tool acts on at the cell
ClickTarget(s, x, y) ==
  LET Of(ti, ri, li) ==
        IF ti # 0 THEN <<"text", s.textBoxes[ti].id>>
        ELSE IF ri # 0 THEN <<"rect", s.rectangles[ri].id>>
        ELSE IF li # 0 THEN <<"line", s.lines[li].id>>
        ELSE NoEntity
  IN Of(getTextBoxAt(s, x, y), getRectangleAt(s, x, y), getLineAt(s, x, y))

\* the cell is a resize handle of the rectangle that is the sole selection
OnHandle(s, x, y) ==
  /\ SetSize(s.selectedRectIds) = 1 /\ getTotalSelectionCount(s) = 1
  /\ getResizeHandleAt(s, SetFirst(s.selectedRectIds), x, y) # "null"

\* the step is a pointer-down of the move tool, no run under edit, that
\* reaches the tool; it records its cell in mouseDownX, mouseDownY
MoveDown(shift) ==
  /\ ~button /\ app.currentTool = "move" /\ app.activeTextBoxId = nullId
  /\ Reaches(app, <<app'.mouseDownX, app'.mouseDownY>>)
  /\ app' = handleMouse(app, MouseEvent("down", app'.mouseDownX, app'.mouseDownY, shift))

\* what the pointer-down on the entity e, or on none, makes of the selection
Selects(e, shift) ==
  IF e = NoEntity THEN Sel(app') = (IF shift THEN Sel(app) ELSE {})
  ELSE IF shift
       THEN Sel(app') = (IF e \in Sel(app) THEN Sel(app) \ {e} ELSE Sel(app) \cup {e})
       ELSE Sel(app') = (IF e \in Sel(app) THEN Sel(app) ELSE {e})

\* C24, off the resize handles of a rectangle that is the sole selection: in
\* the move tool a pointer-down without shift on an unselected entity makes
\* it the sole selection (on a selected one it leaves the selection as it
\* is); with shift it toggles that entity and leaves every other selected id
\* as it was; on empty space it empties the selection without shift and
\* leaves it unchanged with shift.
C24_MoveToolSelection ==
  [][ \A shift \in BOOLEAN :
        (MoveDown(shift) /\ ~OnHandle(app, app'.mouseDownX, app'.mouseDownY))
          => Selects(ClickTarget(app, app'.mouseDownX, app'.mouseDownY), shift) ]_vars

\* C24 as stated, for every cell: on a handle of the selected rectangle the
\* pointer-down starts a resize and selects nothing
C24_MoveToolSelectionAnywhere ==
  [][ \A shift \in BOOLEAN :
        MoveDown(shift)
          => Selects(ClickTarget(app, app'.mouseDownX, app'.mouseDownY), shift) ]_vars

\* a pointer-down with shift on the rectangle added it to a selected line
C24_Witness ==
  /\ steps >= 1 /\ button
  /\ app.currentTool = "move"
  /\ app.isDraggingSelection
  /\ Cardinality(Sel(app)) = 2
  /\ \E r \in SetElems(app.selectedRectIds) : <<"rect", r>> = ClickTarget(app, app.mouseDownX, app.mouseDownY)
  /\ SetSize(app.selectedLineIds) = 1


----------------------------------------------------------------------------
(* Claims about the hit test of lines                                       *)

\* C25: for every line, whatever the direction of its stored endpoints, the
\* pointer over a cell hovers the line exactly when the cell is one of the
\* cells the line is drawn on, the cells from its first stored endpoint to
\* its second.
C25_LineHitIsLineCells ==
  [][ \A cell \in RasterCells :
        ( /\ Len(app.lines) = 1
          /\ app' = handleMouse(app, MouseEvent("move", cell[1], cell[2], FALSE)) )
        => ( app'.hoveredLineId = app.lines[1].id
               <=> Cell(cell[1], cell[2]) \in SetOf(PointsOf(app.lines[1])) ) ]_vars


----------------------------------------------------------------------------
(* Claims about moving and resizing                                         *)

MovedRun(b, dx, dy) == [b EXCEPT !.x = @ + dx, !.y = @ + dy]

MovedShape(e, dx, dy) ==
  [e EXCEPT !.x1 = @ + dx, !.y1 = @ + dy, !.x2 = @ + dx, !.y2 = @ + dy]

\* the document d with the selected entities of s moved by (dx, dy)
MovedDoc(d, s, dx, dy) ==
  [d EXCEPT
     !.textBoxes = [i \in 1..Len(d.textBoxes) |->
        IF SetHas(s.selectedTextBoxIds, d.textBoxes[i].id)
        THEN MovedRun(d.textBoxes[i], dx, dy) ELSE d.textBoxes[i]],
     !.rectangles = [i \in 1..Len(d.rectangles) |->
        IF SetHas(s.selectedRectIds, d.rectangles[i].id)
        THEN MovedShape(d.rectangles[i], dx, dy) ELSE d.rectangles[i]],
     !.lines = [i \in 1..Len(d.lines) |->
        IF SetHas(s.selectedLineIds, d.lines[i].id)
        THEN MovedShape(d.lines[i], dx, dy) ELSE d.lines[i]]]

\* the selection is being dragged: a pointer-down of the move tool hit an entity
Dragging(s, b) == b /\ s.isDraggingSelection

\* C26: during a drag of the selection begun by a pointer-down at p0 on an
\* entity, after each drag event, at pn, the selected entities are where they
\* were at the pointer-down moved by pn - p0, the others are where they were,
\* and the one snapshot of the gesture, pushed by the pointer-down, is the
\* document as it was then.
C26_DragAddsUp ==
  /\ [](Dragging(app, button) =>
          /\ app.historyStack # <<>>
          /\ Doc(app) = MovedDoc(LastSnapshot(app), app,
                                 app.dragStartX - app.mouseDownX,
                                 app.dragStartY - app.mouseDownY))
  /\ [][ \A cell \in BoxCells :
           /\ \A shift \in BOOLEAN :
                ( /\ ~button /\ app.currentTool = "move"
                  /\ app' = handleMouse(app, MouseEvent("down", cell[1], cell[2], shift))
                  /\ app'.isDraggingSelection )
                => /\ <<app'.mouseDownX, app'.mouseDownY>> = cell
                   /\ <<app'.dragStartX, app'.dragStartY>> = cell
                   /\ Doc(app') = Doc(app)
                   /\ PushedOn(app'.historyStack, app.historyStack, Doc(app))
           /\ ( /\ Dragging(app, button)
                /\ app' = handleMouse(app, MouseEvent("drag", cell[1], cell[2], FALSE)) )
              => /\ <<app'.dragStartX, app'.dragStartY>> = cell
                 /\ <<app'.mouseDownX, app'.mouseDownY>> = <<app.mouseDownX, app.mouseDownY>>
                 /\ Sel(app') = Sel(app)
                 /\ app'.historyStack = app.historyStack
                 /\ Dragging(app', button') ]_vars

\* two entities are selected and were dragged by two drag events to a cell
\* that differs from the pointer-down's in x and in y
C26_Witness ==
  /\ Dragging(app, button)
  /\ steps = 3
  /\ Cardinality(Sel(app)) = 2
  /\ app.dragStartX # app.mouseDownX /\ app.dragStartY # app.mouseDownY
  /\ Doc(app) # LastSnapshot(app)


\* the entity the pointer over the cell hovers: the hit one of highest zIndex
HoverTarget(s, x, y) ==
  LET Of(u) ==
        IF u.hoveredTextBoxId # nullId THEN <<"text", u.hoveredTextBoxId>>
        ELSE IF u.hoveredRectId # nullId THEN <<"rect", u.hoveredRectId>>
        ELSE IF u.hoveredLineId # nullId THEN <<"line", u.hoveredLineId>>
        ELSE NoEntity
  IN Of(updateHover(s, x, y))

\* C27: off the resize handles of a rectangle that is the sole selection, a
\* plain pointer-down of the move tool on a cell where entities are hit
\* selects the one of highest z-index, whatever its kind: the one the pointer
\* hovers at that cell.
C27_ClickActsOnTopmost ==
  [][ (MoveDown(FALSE) /\ ~OnHandle(app, app'.mouseDownX, app'.mouseDownY)) =>
        LET Top(h) == (h # NoEntity /\ h \notin Sel(app)) => Sel(app') = {h}
        IN Top(HoverTarget(app, app'.mouseDownX, app'.mouseDownY)) ]_vars


\* the step is a pointer-down of the move tool on a cell that is a resize
\* handle of the rectangle that is the sole selection
HandleDown(shift) ==
  MoveDown(shift) /\ OnHandle(app, app'.mouseDownX, app'.mouseDownY)

\* the step is a drag event in the canvas
DragStep ==
  /\ button
  /\ \E cell \in Cells \cup ResizeCells :
       /\ cell[2] < app.gridHeight
       /\ app' = handleMouse(app, MouseEvent("drag", cell[1], cell[2], FALSE))

\* new is old carried elsewhere: its two corners changed by the same amount
Carried(old, new) ==
  /\ new # old
  /\ new.x1 - old.x1 = new.x2 - old.x2
  /\ new.y1 - old.y1 = new.y2 - old.y2

\* the step moves no entity
NothingCarried ==
  /\ app'.textBoxes = app.textBoxes
  /\ app'.lines = app.lines
  /\ Len(app'.rectangles) = Len(app.rectangles)
  /\ \A j \in 1..Len(app.rectangles) : ~Carried(app.rectangles[j], app'.rectangles[j])

\* C28: in the move tool, with a rectangle as the sole selection, a
\* pointer-down on one of its handle cells starts a resize of it whatever
\* else is hit there, leaves the selection and the document as they are and
\* pushes one snapshot; the drag events that follow move no entity and push
\* nothing; with two or more entities selected a pointer-down starts no
\* resize.
C28_HandleStartsResize ==
  [][ /\ \A shift \in BOOLEAN :
           /\ HandleDown(shift) =>
                /\ app'.isResizingRect
                /\ app'.resizeHandle =
                     getResizeHandleAt(app, SetFirst(app.selectedRectIds),
                                       app'.mouseDownX, app'.mouseDownY)
                /\ Sel(app') = Sel(app)
                /\ Doc(app') = Doc(app)
                /\ PushedOn(app'.historyStack, app.historyStack, Doc(app))
           /\ (MoveDown(shift) /\ getTotalSelectionCount(app) >= 2) =>
                ~app'.isResizingRect
      /\ (app.isResizingRect /\ DragStep) =>
           /\ NothingCarried
           /\ app'.historyStack = app.historyStack
           /\ Sel(app') = Sel(app) ]_vars


\* the columns, the rows, of the rectangle after the handle was dragged from
\* where it was to the cell: the side under the pointer goes to the cell, the
\* opposite side stays
ResizedXs(n, handle, x) ==
  IF handle \in {"nw", "w", "sw"} THEN {x, n.x2}
  ELSE IF handle \in {"ne", "e", "se"} THEN {x, n.x1}
  ELSE {n.x1, n.x2}

ResizedYs(n, handle, y) ==
  IF handle \in {"nw", "n", "ne"} THEN {y, n.y2}
  ELSE IF handle \in {"sw", "s", "se"} THEN {y, n.y1}
  ELSE {n.y1, n.y2}

\* the rectangle new is the one of extent n with its handle dragged to (x, y)
ResizedTo(n, handle, x, y, new) ==
  /\ {new.x1, new.x2} = ResizedXs(n, handle, x)
  /\ {new.y1, new.y2} = ResizedYs(n, handle, y)

\* C29: the first drag event of a resize puts the corner or the edge of the
\* rectangle that was under the pointer at the pointer-down on the cell of
\* the pointer, on the axes of the handle, and leaves the opposite corner or
\* edge where it was, whatever the order of the stored corners.
C29_HandleFollowsPointer ==
  [][ \A cell \in ResizeCells :
        ( /\ button /\ app.isResizingRect /\ ~app.isDraggingSelection
          /\ ~app.hasDragged
          /\ FindIndex(app.rectangles, SetFirst(app.selectedRectIds)) # 0
          /\ app' = handleMouse(app, MouseEvent("drag", cell[1], cell[2], FALSE)) )
        => LET Of(i) ==
                 ResizedTo(normalizeRect(app.rectangles[i]), app.resizeHandle,
                           cell[1], cell[2], app'.rectangles[i])
           IN Of(FindIndex(app.rectangles, SetFirst(app.selectedRectIds))) ]_vars

\* ---------------------------------------------------------------------------
\* Claims about the corners a drawn rectangle is stored with
\* ---------------------------------------------------------------------------

\* the rectangle the step appended to the collection
DrawnRect == app'.rectangles[Len(app'.rectangles)]

\* a pointer-up ended a rectangle draw away from its anchor and one rectangle
\* was appended
RectDrawn ==
  /\ RectDrawEnd /\ ReleasedElsewhere
  /\ Len(app'.rectangles) = Len(app.rectangles) + 1

\* the release cell lies left of or above the anchor
DrawnBackwards ==
  app'.drawCursorX < app.drawStartX \/ app'.drawCursorY < app.drawStartY

\* C30: a rectangle created by a draw gesture is stored normalized: its
\* stored (x1,y1) is the component-wise minimum of the gesture's anchor cell
\* and release cell and its stored (x2,y2) their component-wise maximum, so
\* that a rectangle drawn right-to-left or bottom-to-top is stored with
\* x1 <= x2 and y1 <= y2 all the same.
C30_DrawnRectNormalized ==
  [][ RectDrawn =>
        /\ DrawnRect.x1 = Min(app.drawStartX, app'.drawCursorX)
        /\ DrawnRect.y1 = Min(app.drawStartY, app'.drawCursorY)
        /\ DrawnRect.x2 = Max(app.drawStartX, app'.drawCursorX)
        /\ DrawnRect.y2 = Max(app.drawStartY, app'.drawCursorY)
        /\ DrawnRect.x1 <= DrawnRect.x2 /\ DrawnRect.y1 <= DrawnRect.y2 ]_vars

\* C30 as stated: the rectangle a draw gesture creates has the anchor cell as
\* its stored (x1,y1) and the release cell as its stored (x2,y2), so that
\* one drawn right-to-left or bottom-to-top has x1 > x2 or y1 > y2.
C30_DrawnRectKeepsDirection ==
  [][ RectDrawn =>
        /\ DrawnRect.x1 = app.drawStartX /\ DrawnRect.y1 = app.drawStartY
        /\ DrawnRect.x2 = app'.drawCursorX /\ DrawnRect.y2 = app'.drawCursorY
        /\ DrawnBackwards => (DrawnRect.x1 > DrawnRect.x2 \/ DrawnRect.y1 > DrawnRect.y2)
    ]_vars

\* a rectangle was drawn from the anchor (1,0) to a release cell in column 0:
\* the draw is over, the anchor and the release cell are still in the draw
\* fields, and the rectangle appended starts in column 0
C30_Witness ==
  /\ steps >= 1 /\ ~button /\ ~app.isDrawingRect
  /\ app.drawStartX = 1 /\ app.drawStartY = 0
  /\ app.drawCursorX = 0
  /\ Len(app.rectangles) >= 2
  /\ LET r == app.rectangles[Len(app.rectangles)]
     IN /\ r.id = app.nextRectId - 1
        /\ r.x1 = 0 /\ r.x2 = 1
        /\ SetElems(app.selectedRectIds) = {r.id}

\* ---------------------------------------------------------------------------
\* Claims about the state kept while a text run is edited
\* ---------------------------------------------------------------------------

Editing(s) == s.activeTextBoxId # nullId

\* the position in the collection of the run being edited, 0 when it is missing
ActiveIndex(s) == FindIndex(s.textBoxes, s.activeTextBoxId)

\* C31: whenever a text run is being edited, the caret position c satisfies
\* 0 <= c <= length of that run.
C31_CaretInsideRun ==
  Editing(app) /\ ActiveIndex(app) # 0
    => /\ 0 <= app.textCursorPos
       /\ app.textCursorPos <= getTextLength(app.textBoxes[ActiveIndex(app)])

\* ---------------------------------------------------------------------------
\* Claims about the redo stack
\* ---------------------------------------------------------------------------

\* the step is ctrl+z or ctrl+u reaching undo() or redo()
UndoOrRedoStep ==
  \E key \in {CtrlZ, CtrlU} :
    /\ IsUndoCall(app, key, app') \/ IsRedoCall(app, key, app')
    /\ app' = handleKeypress(app, key, TRUE)

\* C32: after any event other than undo, redo or load that changes an entity
\* collection or a counter, the automatic removal of an empty text run when
\* editing ends included, the redo stack is empty.
C32_MutationClearsRedo ==
  [][ Doc(app') # Doc(app) /\ ~UndoOrRedoStep => app'.redoStack = <<>> ]_vars

\* ---------------------------------------------------------------------------
\* Claims about a delete key that names nothing
\* ---------------------------------------------------------------------------

IdSet(seq) == {seq[i].id : i \in 1..Len(seq)}

\* no id the delete key would act on names an entity of the document
NamesNoEntity(s) ==
  /\ DeleteTargets(s).text \cap IdSet(s.textBoxes) = {}
  /\ DeleteTargets(s).rect \cap IdSet(s.rectangles) = {}
  /\ DeleteTargets(s).line \cap IdSet(s.lines) = {}

SameDocAndStacksIn(s, r) ==
  /\ Doc(r) = Doc(s)
  /\ r.historyStack = s.historyStack
  /\ r.redoStack = s.redoStack

\* C33: a delete key press that names no entity present in the document (no
\* selection and no hover, or a remembered hover id of an entity already
\* deleted) leaves the entity collections, the counters, the undo stack and
\* the redo stack unchanged.
C33_DeleteOfNothing ==
  \A key \in {KeyDelete, KeyBackspace} :
    ( /\ app.activeTextBoxId = nullId
      /\ ~app.showSavePrompt
      /\ NamesNoEntity(app) )
    => SameDocAndStacksIn(app, handleKeypress(app, key, TRUE))

\* ---------------------------------------------------------------------------
\* Claims about empty text runs
\* ---------------------------------------------------------------------------

\* C34: an empty text run exists in the document only while it is the run
\* being edited: when no run is being edited every text run has at least one
\* character.
C34_EmptyRunOnlyUnderEdit ==
  \A i \in 1..Len(app.textBoxes) :
    getTextLength(app.textBoxes[i]) = 0 => app.textBoxes[i].id = app.activeTextBoxId

\* ---------------------------------------------------------------------------
\* Claims about the objects of the snapshots
\* ---------------------------------------------------------------------------

\* the addresses of the entity records and of the character arrays which the
\* document a snapshot, or the live fields, d refer to is made of
RecordsIn(m, d) ==
  SetOf(m.arrays[d.textBoxes]) \cup SetOf(m.arrays[d.rectangles]) \cup SetOf(m.arrays[d.lines])
CharArraysIn(m, d) == {m.records[a].chars : a \in SetOf(m.arrays[d.textBoxes])}

\* the snapshots of both stacks
Stacked(m) == SetOf(m.historyStack) \cup SetOf(m.redoStack)

SharesNothing(m, d, e) ==
  /\ RecordsIn(m, d) \cap RecordsIn(m, e) = {}
  /\ CharArraysIn(m, d) \cap CharArraysIn(m, e) = {}

\* the live document has the values the handler left
Assigned(s2) == DocAt(mem', Live(mem')) = Doc(s2)

\* the step is a drag of the selection, a resize, a typed character, a
\* recolouring or a z-index swap, and the live document is what it has made
InPlaceEdit ==
  \/ \E dx \in {1}, dy \in {0, 1} :
       /\ mem' = Handled(mem, moveSelection(AppOf(mem), dx, dy))
       /\ Assigned(moveSelection(AppOf(mem), dx, dy))
  \/ \E handle \in {"nw", "se"}, x \in {2, 3} :
       LET Resized(s) == resizeRect(s, SetFirst(s.selectedRectIds), x, 1)
       IN /\ mem' = Handled(mem, Resized([AppOf(mem) EXCEPT !.resizeHandle = handle]))
          /\ Assigned(Resized([AppOf(mem) EXCEPT !.resizeHandle = handle]))
  \/ /\ Len(mem.arrays[mem.textBoxes]) > 0
     /\ \E p \in {0, 1} :
          /\ mem' = typeCharacterAt(mem, mem.arrays[mem.textBoxes][1], p, "b")
          /\ Len(DocAt(mem', Live(mem')).textBoxes[1].chars)
               = Len(DocAt(mem, Live(mem)).textBoxes[1].chars) + 1
  \/ mem' = Handled(mem, applyStrokeColorToSelection(
                            [AppOf(mem) EXCEPT !.currentStrokeColor = STROKE_PALETTE[2]]))
  \/ \E kind \in {"text", "rect", "line"} :
       mem' = Handled(mem, moveLayerUp(
                [AppOf(mem) EXCEPT
                   !.selectedTextBoxIds = IF kind = "text" THEN @ ELSE <<>>,
                   !.selectedRectIds = IF kind = "rect" THEN @ ELSE <<>>,
                   !.selectedLineIds = IF kind = "line" THEN @ ELSE <<>>]))

\* the snapshots that were on a stack before the step still stand for the
\* documents they stood for
StackedUnchanged ==
  \A snapshot \in Stacked(mem) : DocAt(mem', snapshot) = DocAt(mem, snapshot)

\* C35: no entity record and no character sequence is shared between the
\* live document and a snapshot of the undo or of the redo stack, nor between
\* two snapshots, and every in-place edit of the live document (drag, resize,
\* typing, recolouring, z-index swap), after whatever calls of snapshot(),
\* undo() and redo(), leaves every stacked snapshot as it was.
C35_SnapshotsAreDeepCopies ==
  /\ [](\A d \in Stacked(mem) :
          /\ SharesNothing(mem, Live(mem), d)
          /\ \A e \in Stacked(mem) \ {d} : SharesNothing(mem, d, e))
  /\ [][InPlaceEdit => StackedUnchanged]_vars

\* a character was typed, the typing undone, and the installed document
\* dragged one column right: the snapshot on the redo stack still holds the
\* run of two characters and the rectangle where it was
C35_Witness ==
  /\ steps = MaxHeapSteps
  /\ Len(mem.historyStack) = 0 /\ Len(mem.redoStack) = 1
  /\ LET Dragged(live, undone) ==
           /\ Len(live.textBoxes[1].chars) = 1
           /\ Len(undone.textBoxes[1].chars) = 2
           /\ live.rectangles[1].x1 = undone.rectangles[1].x1 + 1
           /\ live.textBoxes[1].x = undone.textBoxes[1].x + 1
     IN Dragged(DocAt(mem, Live(mem)), DocAt(mem, mem.redoStack[1]))

\* ---------------------------------------------------------------------------
\* Claims about the caret timer
\* ---------------------------------------------------------------------------

\* a step that delivers no event: a tick of the caret timer
TickStep == steps' = steps

\* C36: a caret-blink timer tick, at any point between two events, changes
\* no entity, counter, selection, hover, tool, gesture sub-state or history
\* stack; when no run is being edited it changes nothing at all, and when a
\* run is being edited it only flips the caret-visible flag.
C36_TickOnlyBlinks ==
  [][ TickStep =>
        /\ [app' EXCEPT !.cursorBlinkVisible = app.cursorBlinkVisible] = app
        /\ UNCHANGED <<button, loadFileResult, gpre, gpend, gundo>>
        /\ app'.cursorBlinkVisible = (IF Editing(app) THEN ~app.cursorBlinkVisible
                                      ELSE app.cursorBlinkVisible) ]_vars

\* the timer has fired in the middle of a gesture made while a run is
\* edited: the caret is hidden, the button is down
C36_Witness ==
  /\ Editing(app) /\ ~app.cursorBlinkVisible
  /\ button /\ steps >= 1

\* ---------------------------------------------------------------------------
\* Claims about the ids the selection and the editor hold
\* ---------------------------------------------------------------------------

C38_EditedRunExists ==
  Editing(app) => ActiveIndex(app) # 0 /\ ~hasSelection(app)

\* the selected run was clicked and is edited in the move tool: it is in the
\* document and nothing is selected any more
C38_Witness ==
  /\ Editing(app) /\ app.currentTool = "move"
  /\ steps >= 2 /\ ~button
  /\ ActiveIndex(app) # 0
  /\ getTextLength(app.textBoxes[ActiveIndex(app)]) > 0
  /\ ~hasSelection(app)

\* ---------------------------------------------------------------------------
\* Claims about the end of a gesture
\* ---------------------------------------------------------------------------

\* no drawing, box-selecting, selection-dragging or resizing sub-state is active
GestureOver(s) ==
  /\ ~s.isDrawingRect /\ ~s.isDrawingLine
  /\ ~s.isSelecting /\ ~s.isSelectionPending
  /\ ~s.isDraggingSelection
  /\ ~s.isResizingRect

\* C39: every pointer-up or drag-end event, at whatever cell it is delivered
\* (the rows at or below the canvas height included), ends the gesture:
\* afterwards no drawing, box-selecting, selection-dragging or resizing
\* sub-state is active.
C39_PointerUpEndsGesture ==
  [][ button /\ ~button' => GestureOver(app') ]_vars

\* ---------------------------------------------------------------------------
\* Claims about undo and redo in the middle of a gesture
\* ---------------------------------------------------------------------------

\* the button is down in a selection drag or in a rectangle resize
MidGesture(s, b) == b /\ (s.isDraggingSelection \/ s.isResizingRect)

\* u is the CanvasApp right after an undo() or a redo() that installed a
\* snapshot: a drag event at any cell changes no entity of the installed
\* document, nor does a second one, and the pointer-up, at any cell, right
\* after the undo or after a drag event, changes none and pushes no snapshot
RestOfGestureIdle(u) ==
  \A c1 \in Cells :
    LET Rest(d) ==
          /\ Doc(d) = Doc(u)
          /\ d.historyStack = u.historyStack
          /\ \A c2 \in Cells :
               LET End(p, dd) ==
                     /\ Doc(p) = Doc(u) /\ p.historyStack = u.historyStack
                     /\ Doc(dd) = Doc(u)
               IN End(handleMouse(d, Up(c2[1], c2[2])),
                      handleMouse(d, Drag(c2[1], c2[2])))
        Ends(p) == Doc(p) = Doc(u) /\ p.historyStack = u.historyStack
    IN /\ Rest(handleMouse(u, Drag(c1[1], c1[2])))
       /\ Ends(handleMouse(u, Up(c1[1], c1[2])))

\* C40: if undo() or redo() runs in the middle of a selection drag or of a
\* rectangle resize, the remaining drag events of the gesture change no
\* entity of the installed document, and the pointer-up that ends the
\* gesture changes no entity and pushes no snapshot.
C40_UndoInGesture ==
  MidGesture(app, button) =>
    \A key \in {CtrlZ, CtrlU} :
      LET After(u) ==
            IsUndoCall(app, key, u) \/ IsRedoCall(app, key, u) => RestOfGestureIdle(u)
      IN After(handleKeypress(app, key, TRUE))

\* in the middle of a drag of the selected run, after a drag event has moved
\* it: an undo() here installs the snapshot the pointer-down took
C40_Witness ==
  /\ MidGesture(app, button) /\ app.isDraggingSelection /\ app.hasDragged
  /\ hasSelection(app) /\ steps >= 2
  /\ app.historyStack # <<>>
  /\ Doc(app) # LastSnapshot(app)
  /\ IsUndoCall(app, CtrlZ, handleKeypress(app, CtrlZ, TRUE))
====
